---- MODULE Spec2Model ----
(***************************************************************************)
(* A model of @howezt/telemetry: the adapter registry and initSDK, the     *)
(* withTrace span engine, the durable workflow instrumentation with its    *)
(* traced step and traceparent helpers, and the endpoint resolver.         *)
(***************************************************************************)
EXTENDS Integers, Sequences, FiniteSets, TLC

(***************************************************************************)
(* Bounds of the model.                                                    *)
(***************************************************************************)
MaxAdapters == 3
MaxInits == 2
MaxSpans == 1
MaxRuns == 2
MaxUserSteps == 2
MaxTracedSteps == 2
MaxReads == 3
MaxHops == 2
MaxUrlLen == 4
MaxApplications == 2
MaxDetectors == 2

\* Invocations of wrapped entry points in one process.
MaxInvocations == 2

MaxResets == 1

\* Calls of the methods of one logger.
MaxLogCalls == 2

\* Calls of one function returned by instrumentFetch.
MaxFetchCalls == 2

\* Calls of shutdown and forceFlush on one SDKResult.
MaxLifecycleCalls == 2

(***************************************************************************)
(* State                                                                   *)
(***************************************************************************)
\* registry.ts: the adapter list; the process's runtime; the globally
\* registered propagator and providers; the calls of initSDK.
VARIABLES adapters, runtimeEnv, globals, initCount, lastInit

\* with-trace.ts: one record per invocation of withTrace.
VARIABLES spans

\* The workflow: the cached SDK handle of the current process, the durable
\* store of the engine, the triggering event, the user's run function, the
\* execution of run() in the current process and the number of executions
\* so far (an evicted process takes its execution with it).
VARIABLES sdkResult, tpMemo, doneSteps, payload, userProg, userEnds, run,
          runCount

\* createTracedStep: the traced step of the current run (its identity and
\* its methodCache), the next unused function identity, and the property
\* reads made so far on traced steps.
VARIABLES tracedStep, nextRef, reads

\* injectTraceparent / extractTraceparent: the params object a caller holds
\* as it is now and as it was built, the last call of each function, the
\* number of workflows the params went through, the next object identity.
VARIABLES wfParams, wfParamsIn, lastInject, lastExtract, hops, nextObj

\* endpoints.ts normalizeEndpoint: the string given by the caller and the
\* results of the successive applications of the function, each to the
\* result of the one before.
VARIABLES url, normalized

\* endpoints.ts resolveSignalEndpoint: the signal and the config of the call,
\* the environment of the process, and the outcome of the call.
VARIABLES epSignal, epConfig, processEnv, epResult

\* resource.ts buildResource: the config and the runtime detectors of the
\* call, whether stderr is a terminal, and the outcome of the call.
VARIABLES rsConfig, rsDetectors, rsTTY, rsResult

\* registry.ts resolve: the last call and what it gave.
VARIABLES lastResolve

\* A built-in adapter's setup: the adapter, its configuration, the process
\* environment, and what the last call did.
VARIABLES suAdapter, suConfig, suProcessEnv, suResult

\* instrument.ts in one process: the module's sdkResult, the number of
\* calls of initSDK, and the invocations of the wrapped entry points.
VARIABLES insHandle, insInits, invs, insFirst, insResets, insSpans

\* logger.ts createLogger: the stderr writer the logger was given and the
\* calls of its methods so far.
VARIABLES lgWriter, lgCalls

\* instrument.ts traceHandler: the request's traceparent header, the
\* context active around the call, what setup registered, and the call.
VARIABLES thHeader, thActive, thRegistered, thResult

\* instrument-fetch.ts instrumentFetch: whether config.logger is given, and
\* the calls of the returned function so far.
VARIABLES ifLogger, ifCalls

\* The lifecycle operations of one SDKResult: the adapter that made it,
\* the signals it has providers for, and the calls made so far.
VARIABLES lcAdapter, lcEnabled, lcCalls

sdkVars == <<adapters, runtimeEnv, globals, initCount, lastInit>>

traceVars == <<spans>>

wfVars ==
  <<sdkResult, tpMemo, doneSteps, payload, userProg, userEnds, run, runCount>>

stepVars == <<tracedStep, nextRef, reads>>

paramVars == <<wfParams, wfParamsIn, lastInject, lastExtract, hops, nextObj>>

normVars == <<url, normalized>>

epVars == <<epSignal, epConfig, processEnv, epResult>>

rsVars == <<rsConfig, rsDetectors, rsTTY, rsResult>>

regVars == <<lastResolve>>

insVars == <<insHandle, insInits, invs, insFirst, insResets, insSpans>>

suVars == <<suAdapter, suConfig, suProcessEnv, suResult>>

lgVars == <<lgWriter, lgCalls>>

thVars == <<thHeader, thActive, thRegistered, thResult>>

ifVars == <<ifLogger, ifCalls>>

lcVars == <<lcAdapter, lcEnabled, lcCalls>>

extVars == <<lgVars, thVars, ifVars, lcVars>>

libVars == <<rsVars, regVars, insVars, suVars, extVars>>

helperVars == <<stepVars, paramVars, normVars, epVars, libVars>>

coreVars == <<sdkVars, traceVars, wfVars, stepVars, paramVars, normVars, epVars>>

\* What a call of buildResource leaves alone.
notRs == <<coreVars, regVars, insVars, suVars, extVars>>

\* What a call of resolve leaves alone.
notReg ==
  <<traceVars, wfVars, stepVars, paramVars, normVars, epVars, rsVars, insVars,
    suVars, extVars>>

\* What an invocation of a wrapped entry point leaves alone.
notIns ==
  <<traceVars, wfVars, stepVars, paramVars, normVars, epVars, rsVars, regVars,
    suVars, extVars>>

\* What a call of a built-in setup leaves alone.
notSu == <<coreVars, rsVars, regVars, insVars, extVars>>

\* What a call of a logger method leaves alone.
notLg == <<coreVars, rsVars, regVars, insVars, suVars, thVars, ifVars, lcVars>>

\* What a call of traceHandler leaves alone.
notTh == <<coreVars, rsVars, regVars, insVars, suVars, lgVars, ifVars, lcVars>>

\* What a call of an instrumented fetch leaves alone.
notIf ==
  <<coreVars, rsVars, regVars, insVars, suVars, lgVars, thVars, lcVars>>

\* What a lifecycle call leaves alone.
notLc ==
  <<coreVars, rsVars, regVars, insVars, suVars, lgVars, thVars, ifVars>>

vars == <<sdkVars, traceVars, wfVars, helperVars>>

(***************************************************************************)
(* Adapter registry and initSDK                                            *)
(***************************************************************************)

\* The four members every SDKResult has.
RequiredKeys == {"provider", "logger", "shutdown", "forceFlush"}

\* noop.ts: the no-op result; provider is the global tracer provider,
\* logger the noopLogger, both lifecycle operations resolve immediately.
noopSDKResult ==
  [provider |-> "globalTracerProvider", logger |-> "noopLogger",
   shutdown |-> "resolves", forceFlush |-> "resolves"]

\* registry.ts: the adapter returned when nothing matches.
noopAdapter == [name |-> "noop", detect |-> "false", setup |-> "noop"]

cloudflareWorkerAdapter ==
  [name |-> "cloudflare-worker", detect |-> "cloudflare", setup |-> "cloudflare"]

nodeAdapter == [name |-> "node", detect |-> "node", setup |-> "node"]

\* Adapters a caller may register: detect() answers true, false or throws;
\* setup() returns a full result or throws.
CustomAdapters ==
  [name : {"deno", "node"}, detect : {"true", "false", "throws"},
   setup : {"custom", "throws"}]

\* The places of a built-in setup where an exception can be raised.
SetupFaults == {"none", "resource", "afterPropagator"}

SDKConfigs ==
  [runtime : {"", "node", "cloudflare-worker", "deno", "bun"},
   metrics : BOOLEAN, fault : SetupFaults]

\* detect.ts: both built-in probes catch their own exceptions.
Detect(a, e) ==
  CASE a.detect = "cloudflare" -> [threw |-> FALSE, val |-> e.cloudflare]
    [] a.detect = "node"       -> [threw |-> FALSE, val |-> e.node]
    [] a.detect = "true"       -> [threw |-> FALSE, val |-> TRUE]
    [] a.detect = "false"      -> [threw |-> FALSE, val |-> FALSE]
    [] OTHER                   -> [threw |-> TRUE, val |-> FALSE]

\* A detection loop that prefers the adapter registered last.
RECURSIVE detectFromLast(_, _, _)
detectFromLast(as, i, e) ==
  IF i > Len(as) THEN [threw |-> FALSE, adapter |-> noopAdapter]
  ELSE LET d == Detect(as[i], e)
           rest == detectFromLast(as, i + 1, e)
       IN  IF d.threw THEN [threw |-> TRUE, adapter |-> noopAdapter]
           ELSE IF rest.threw \/ rest.adapter # noopAdapter THEN rest
           ELSE IF d.val THEN [threw |-> FALSE, adapter |-> as[i]]
           ELSE rest

\* registry.ts resolve, the auto-detection loop from index i on.
RECURSIVE detectFrom(_, _, _)
detectFrom(as, i, e) ==
  IF i > Len(as) THEN [threw |-> FALSE, adapter |-> noopAdapter]
  ELSE LET d == Detect(as[i], e) IN
       IF d.threw THEN [threw |-> TRUE, adapter |-> noopAdapter]
       ELSE IF d.val THEN [threw |-> FALSE, adapter |-> as[i]]
       ELSE detectFrom(as, i + 1, e)

\* registry.ts resolve, the lookup by name: Array.prototype.find.
RECURSIVE findByName(_, _, _)
findByName(as, i, n) ==
  IF i > Len(as) THEN noopAdapter
  ELSE IF as[i].name = n THEN as[i]
  ELSE findByName(as, i + 1, n)

\* registry.ts resolve with a lookup that throws when no name matches.
resolveStrict(as, runtimeName, e) ==
  IF runtimeName # ""
  THEN [threw |-> findByName(as, 1, runtimeName) = noopAdapter,
        adapter |-> findByName(as, 1, runtimeName)]
  ELSE detectFrom(as, 1, e)

\* registry.ts resolve: by name when one is given, else by detection.
resolve(as, runtimeName, e) ==
  IF runtimeName # ""
  THEN [threw |-> FALSE, adapter |-> findByName(as, 1, runtimeName)]
  ELSE detectFrom(as, 1, e)

\* The result a successful built-in setup composes.
builtinResult(cfg) ==
  [provider |-> "tracerProvider",
   meterProvider |-> IF cfg.metrics THEN "meterProvider" ELSE "undefined",
   logger |-> "logger", shutdown |-> "guarded", forceFlush |-> "guarded"]

\* adapter.setup(config): the outcome and the global registrations it made.
\* The built-in adapters catch every exception themselves.
setup(a, cfg) ==
  CASE a.setup \in {"cloudflare", "node"} ->
         IF cfg.fault = "resource"
         THEN [threw |-> FALSE, result |-> noopSDKResult, registered |-> {}]
         ELSE IF cfg.fault = "afterPropagator"
         THEN [threw |-> FALSE, result |-> noopSDKResult,
               registered |-> {"propagator"}]
         ELSE [threw |-> FALSE, result |-> builtinResult(cfg),
               registered |-> {"propagator"}]
    [] a.setup = "noop" ->
         [threw |-> FALSE, result |-> noopSDKResult, registered |-> {}]
    [] a.setup = "custom" ->
         [threw |-> FALSE,
          result |-> [provider |-> "customProvider", logger |-> "customLogger",
                      shutdown |-> "custom", forceFlush |-> "custom"],
          registered |-> {}]
    [] OTHER ->
         [threw |-> TRUE, result |-> noopSDKResult, registered |-> {}]

\* sdk.ts initSDK with its try/catch removed: exceptions reach the caller.
initSDKNoCatch(as, cfg, e) ==
  LET r == resolve(as, cfg.runtime, e)
      s == setup(r.adapter, cfg)
  IN  IF r.threw
      THEN [threw |-> TRUE, result |-> <<>>, resolveThrew |-> TRUE,
            setupThrew |-> FALSE, registered |-> {}]
      ELSE [threw |-> s.threw, result |-> IF s.threw THEN <<>> ELSE s.result,
            resolveThrew |-> FALSE, setupThrew |-> s.threw,
            registered |-> s.registered]

\* sdk.ts initSDK.
initSDK(as, cfg, e) ==
  LET r == resolve(as, cfg.runtime, e)
      s == setup(r.adapter, cfg)
  IN  IF r.threw
      THEN [threw |-> FALSE, result |-> noopSDKResult, resolveThrew |-> TRUE,
            setupThrew |-> FALSE, registered |-> {}]
      ELSE IF s.threw
      THEN [threw |-> FALSE, result |-> noopSDKResult, resolveThrew |-> FALSE,
            setupThrew |-> TRUE, registered |-> s.registered]
      ELSE [threw |-> FALSE, result |-> s.result, resolveThrew |-> FALSE,
            setupThrew |-> FALSE, registered |-> s.registered]

(***************************************************************************)
(* JavaScript values, trace contexts and the W3C traceparent               *)
(***************************************************************************)

\* A JavaScript value: id is its object identity, message the .message of an
\* Error, str the result of String(value).
Undefined == [type |-> "undefined", id |-> 0, message |-> "", str |-> "undefined"]

ErrBoom == [type |-> "Error", id |-> 1, message |-> "boom", str |-> "Error: boom"]

StrOops == [type |-> "string", id |-> 2, message |-> "", str |-> "oops"]

Num42 == [type |-> "number", id |-> 3, message |-> "", str |-> "42"]

\* An object with a then method that is not a Promise instance.
Thenable == [type |-> "thenable", id |-> 4, message |-> "", str |-> "[object Object]"]

ReturnValues == {Num42, Undefined, Thenable}

ThrownValues == {ErrBoom, StrOops}

\* The invalid span context: what a context without a span yields.
NoSpan == [traceId |-> "", spanId |-> "", remote |-> FALSE, run |-> 0]

SpanA == [traceId |-> "t1", spanId |-> "s1", remote |-> FALSE, run |-> 0]

SpanB == [traceId |-> "t2", spanId |-> "s2", remote |-> FALSE, run |-> 0]

\* A context: the span it carries and the other entries (baggage).
ROOT_CONTEXT == [span |-> NoSpan, baggage |-> "none"]

\* The contexts that can be active when an operation is entered.
AmbientContexts ==
  {ROOT_CONTEXT, [span |-> SpanA, baggage |-> "tenant"],
   [span |-> SpanB, baggage |-> "none"]}

\* A traceparent string as its dash-separated fields; <<>> is the empty string.
EmptyString == <<>>

TraceparentStrings ==
  {EmptyString, <<"00", "t2", "s2", "01">>, <<"garbage">>}

\* W3CTraceContextPropagator.extract: version-traceId-spanId-flags, else none.
parseTraceParent(tp) ==
  IF Len(tp) = 4 /\ tp[1] = "00" /\ tp[2] # "" /\ tp[3] # ""
  THEN [traceId |-> tp[2], spanId |-> tp[3], remote |-> TRUE, run |-> 0]
  ELSE NoSpan

\* propagation.extract(ctx, {traceparent: tp}) under the global propagator;
\* without a registered propagator the context comes back unchanged.
extract(registered, ctx, tp) ==
  IF "propagator" \in registered /\ parseTraceParent(tp) # NoSpan
  THEN [ctx EXCEPT !.span = parseTraceParent(tp)]
  ELSE ctx

\* propagation.inject(ctx, carrier) followed by carrier.traceparent ?? "".
inject(registered, ctx) ==
  IF "propagator" \in registered /\ ctx.span # NoSpan
  THEN <<"00", ctx.span.traceId, ctx.span.spanId, "01">>
  ELSE EmptyString

\* trace.setSpan(ctx, span).
setSpan(ctx, span) == [ctx EXCEPT !.span = span]

(***************************************************************************)
(* withTrace                                                               *)
(***************************************************************************)
\* opts.parent: absent, a live Span, or a string.
ParentOpts ==
  {[kind |-> "absent", span |-> NoSpan, tp |-> EmptyString]}
  \cup [kind : {"span"}, span : {SpanA, SpanB}, tp : {EmptyString}]
  \cup [kind : {"string"}, span : {NoSpan}, tp : TraceparentStrings]

\* What fn(span) does: returns a value, throws, or returns a Promise.
FnBehaviours ==
  [kind : {"return"}, val : ReturnValues]
  \cup [kind : {"throw"}, val : ThrownValues]
  \cup [kind : {"promise"}, val : {Undefined}]

Ev(op, message, val) == [op |-> op, message |-> message, val |-> val]

\* with-trace.ts resolveParentContext with the extraction based on the
\* active context instead of ROOT_CONTEXT.
resolveParentContextFromActive(registered, parent, active) ==
  IF parent.kind = "absent" \/ (parent.kind = "string" /\ parent.tp = EmptyString)
  THEN active
  ELSE IF parent.kind = "string"
  THEN extract(registered, active, parent.tp)
  ELSE setSpan(active, parent.span)

\* with-trace.ts resolveParentContext: !parent holds for undefined and "".
resolveParentContext(registered, parent, active) ==
  IF parent.kind = "absent" \/ (parent.kind = "string" /\ parent.tp = EmptyString)
  THEN active
  ELSE IF parent.kind = "string"
  THEN extract(registered, ROOT_CONTEXT, parent.tp)
  ELSE setSpan(active, parent.span)

\* The message given to setStatus, always String(error).
statusMessageString(error) == error.str

\* error instanceof Error ? error.message : String(error)
statusMessage(error) ==
  IF error.type = "Error" THEN error.message ELSE error.str

\* with-trace.ts withTrace, the catch block around fn(span).
catchBlock(error) ==
  <<Ev("setStatus", statusMessage(error), Undefined),
    Ev("recordException", "", error),
    Ev("end", "", Undefined),
    Ev("throw", "", error)>>

\* with-trace.ts withTrace, the fulfilment handler given to result.then.
onFulfilled(value) == <<Ev("end", "", Undefined), Ev("resolve", "", value)>>

\* The rejection handler without span.end().
onRejectedNoEnd(error) ==
  <<Ev("setStatus", statusMessage(error), Undefined),
    Ev("recordException", "", error),
    Ev("reject", "", error)>>

\* The rejection handler throwing a new Error made from the reason.
onRejectedWrapped(error) ==
  <<Ev("setStatus", statusMessage(error), Undefined),
    Ev("recordException", "", error),
    Ev("end", "", Undefined),
    Ev("reject", "", [type |-> "Error", id |-> 9, message |-> error.str,
                      str |-> error.str])>>

\* with-trace.ts withTrace, the rejection handler given to result.then.
onRejected(error) ==
  <<Ev("setStatus", statusMessage(error), Undefined),
    Ev("recordException", "", error),
    Ev("end", "", Undefined),
    Ev("reject", "", error)>>

\* with-trace.ts withTrace, the end of the callback for a plain result.
syncReturn(value) == <<Ev("end", "", Undefined), Ev("return", "", value)>>

\* The Promise branch ending the span before handing the promise back.
promiseBranchEager == <<Ev("end", "", Undefined), Ev("returnPromise", "", Undefined)>>

\* with-trace.ts, result instanceof Promise: attach the handlers and hand
\* the derived promise back; nothing is done to the span yet.
promiseBranch == <<Ev("returnPromise", "", Undefined)>>

\* The callback given to startActiveSpan, up to the return of withTrace.
runCallback(b) ==
  CASE b.kind = "return" -> syncReturn(b.val)
    [] b.kind = "throw"  -> catchBlock(b.val)
    [] OTHER             -> promiseBranch

\* withTrace(fn, opts) is called with the given active context.
WithTrace(parent, active, b) ==
  /\ UNCHANGED <<sdkVars, wfVars, helperVars>>
  /\ Len(spans) < MaxSpans
  /\ spans' = Append(spans,
       [parent |-> parent, active |-> active, fn |-> b,
        parentCtx |-> resolveParentContext(globals, parent, active),
        state |-> IF b.kind = "promise" THEN "pending" ELSE "done",
        settled |-> "no", settledVal |-> Undefined,
        log |-> runCallback(b)])

\* The promise returned by fn settles.
SettlePromise(i, how, v) ==
  /\ UNCHANGED <<sdkVars, wfVars, helperVars>>
  /\ spans[i].state = "pending"
  /\ spans' = [spans EXCEPT ![i].state = "settled",
                            ![i].settled = how,
                            ![i].settledVal = v,
                            ![i].log = Append(@, Ev("settled", how, v))]

\* The reaction attached by result.then(...) runs.
RunReaction(i) ==
  /\ UNCHANGED <<sdkVars, wfVars, helperVars>>
  /\ spans[i].state = "settled"
  /\ spans' = [spans EXCEPT
       ![i].state = "done",
       ![i].log = @ \o (IF spans[i].settled = "fulfilled"
                        THEN onFulfilled(spans[i].settledVal)
                        ELSE onRejected(spans[i].settledVal))]

(***************************************************************************)
(* instrumentWorkflow                                                      *)
(***************************************************************************)

\* The steps a user's run function can issue on the step object it is given;
\* waitForEvent stands for every method the Proxy does not intercept.
UserSteps ==
  [method : {"do", "sleep", "sleepUntil", "waitForEvent"}, name : {"step-a"}]

Intercepted == {"do", "sleep", "sleepUntil"}

\* The event payload: without a __traceparent key, or with one.
Payloads ==
  {[present |-> FALSE, tp |-> EmptyString]}
  \cup [present : {TRUE}, tp : TraceparentStrings]

InfraError == [type |-> "Error", id |-> 5, message |-> "storage", str |-> "Error: storage"]

StepError == [type |-> "Error", id |-> 6, message |-> "step failed", str |-> "Error: step failed"]

RunError == [type |-> "Error", id |-> 7, message |-> "run crashed", str |-> "Error: run crashed"]

NoHandle == [set |-> FALSE, result |-> noopSDKResult]

\* An ensureSDK that initialises again while the stored result is the
\* no-op result.
ensureSDKRetryNoop(handle, as, cfg, e) ==
  IF ~handle.set \/ handle.result = noopSDKResult
  THEN LET o == initSDK(as, [cfg EXCEPT !.runtime = "cloudflare-worker"], e)
       IN  [handle |-> [set |-> TRUE, result |-> o.result],
            registered |-> o.registered, called |-> TRUE]
  ELSE [handle |-> handle, registered |-> {}, called |-> FALSE]

\* An ensureSDK that initialises on every call.
ensureSDKNoCache(handle, as, cfg, e) ==
  LET o == initSDK(as, [cfg EXCEPT !.runtime = "cloudflare-worker"], e)
  IN  [handle |-> [set |-> TRUE, result |-> o.result],
       registered |-> o.registered, called |-> TRUE]

\* instrument.ts ensureSDK: initialise on the first call, then reuse.
ensureSDK(handle, as, cfg, e) ==
  IF ~handle.set
  THEN LET o == initSDK(as, [cfg EXCEPT !.runtime = "cloudflare-worker"], e)
       IN  [handle |-> [set |-> TRUE, result |-> o.result],
            registered |-> o.registered, called |-> TRUE]
  ELSE [handle |-> handle, registered |-> {}, called |-> FALSE]

\* index.ts instrumentWorkflow: the traceparent taken from event.payload;
\* an absent key and an empty string are both falsy for what follows.
payloadTraceparent(pl) == IF pl.present THEN pl.tp ELSE EmptyString

\* The persistence value with the active context preferred over the payload.
traceparentToPersistAmbientFirst(registered, traceparent, active) ==
  IF inject(registered, active) # EmptyString
  THEN inject(registered, active)
  ELSE traceparent

\* index.ts resolveParentContext, the value the __traceparent callback
\* resolves with: the given traceparent, else the injected active context.
traceparentToPersist(registered, traceparent, active) ==
  IF traceparent # EmptyString THEN traceparent
  ELSE inject(registered, active)

\* The parent context taken from the event's traceparent or the active
\* context, whatever the persistence step returned.
contextFromPersistedIgnored(registered, persisted, traceparent, active) ==
  IF traceparent # EmptyString
  THEN extract(registered, ROOT_CONTEXT, traceparent)
  ELSE active

\* index.ts resolveParentContext, after the await: the context of the
\* persisted value, or the active context when that value is empty.
contextFromPersisted(registered, persisted, traceparent, active) ==
  IF persisted # EmptyString
  THEN extract(registered, ROOT_CONTEXT, persisted)
  ELSE active

\* No persistence step at the entry of run().
entryCallsNone == <<>>

\* index.ts resolveParentContext: the call made on the step object before
\* anything else.
entryCalls == <<[method |-> "do", name |-> "__traceparent"]>>

\* The span context of the workflow.run span of execution r.
rootSpanOf(r, parentCtx) ==
  [traceId |-> IF parentCtx.span = NoSpan THEN "fresh" ELSE parentCtx.span.traceId,
   spanId |-> "workflow.run", remote |-> FALSE, run |-> r]

\* A step wrapper reading the active context at the time of the call.
stepParentContextAmbient(runCtx, activeAtCall) == activeAtCall

\* index.ts tracedDo / tracedSleep / tracedSleepUntil: the context given to
\* withSpan is the one createTracedStep received.
stepParentContext(runCtx, activeAtCall) == runCtx

\* A root span callback that ends the span in its catch block and again in
\* its finally block.
rootSpanSettledTwice(how, v) ==
  IF how = "rejected"
  THEN <<Ev("setStatus", statusMessage(v), Undefined),
         Ev("recordException", "", v),
         Ev("end", "", Undefined),
         Ev("end", "", Undefined)>>
  ELSE <<Ev("end", "", Undefined)>>

\* index.ts instrumentWorkflow, the callback of the workflow.run span: what
\* happens to the root span when the user's run function settles.
rootSpanSettled(how, v) ==
  IF how = "rejected"
  THEN <<Ev("setStatus", statusMessage(v), Undefined),
         Ev("recordException", "", v),
         Ev("end", "", Undefined)>>
  ELSE <<Ev("end", "", Undefined)>>

\* A step wrapper without the finally block: a rejected call leaves the
\* span open.
withSpanNoFinally(how, v) ==
  IF how = "rejected"
  THEN <<Ev("setStatus", statusMessage(v), Undefined),
         Ev("recordException", "", v)>>
  ELSE <<Ev("end", "", Undefined)>>

\* index.ts withSpan: what happens to a step span when the wrapped call on
\* the step object settles.
withSpan(how, v) ==
  IF how = "rejected"
  THEN <<Ev("setStatus", statusMessage(v), Undefined),
         Ev("recordException", "", v),
         Ev("end", "", Undefined)>>
  ELSE <<Ev("end", "", Undefined)>>

NoOutcome == [kind |-> "none", val |-> Undefined]

NoRun ==
  [active |-> ROOT_CONTEXT, reg |-> {}, traceparent |-> EmptyString,
   offered |-> EmptyString, replayed |-> FALSE, persisted |-> EmptyString,
   parentCtx |-> ROOT_CONTEXT, rootStarted |-> FALSE, rootLog |-> <<>>,
   calls |-> <<>>, stepSpans |-> <<>>, ip |-> 1, pc |-> "idle",
   outcome |-> NoOutcome]

Live == run.pc \in {"awaitTraceparent", "user", "awaitStep"}

\* run(event, step) is entered in a new process whose active context is
\* `active`, for the first time or after an eviction. The code runs up to
\* the await of the __traceparent step.
StartRun(active, cfg) ==
  /\ run.pc \in {"idle", "evicted"}
  /\ runCount < MaxRuns
  /\ LET sdk    == ensureSDK(NoHandle, adapters, cfg, runtimeEnv)
         reg    == sdk.registered
         tp     == payloadTraceparent(payload)
     IN  /\ sdkResult' = sdk.handle
         /\ globals' = reg
         /\ run' =
              [active |-> active, reg |-> reg, traceparent |-> tp,
               offered |-> traceparentToPersist(reg, tp, active),
               replayed |-> tpMemo.set, persisted |-> EmptyString,
               parentCtx |-> ROOT_CONTEXT, rootStarted |-> FALSE,
               rootLog |-> <<>>, calls |-> entryCalls, stepSpans |-> <<>>,
               ip |-> 1, pc |-> "awaitTraceparent", outcome |-> NoOutcome]
  /\ runCount' = runCount + 1
  /\ UNCHANGED <<adapters, runtimeEnv, initCount, lastInit, spans, helperVars>>
  /\ UNCHANGED <<tpMemo, doneSteps, payload, userProg, userEnds>>

\* The __traceparent step resolves: with the memoized value when there is
\* one, else with what the callback resolved with, which is then memoized.
\* The context active after the await is the one of the process. The root
\* span is started and the user's run function is called.
TraceparentResolves ==
  /\ Live /\ run.pc = "awaitTraceparent"
  /\ LET r == run
         persisted == IF tpMemo.set THEN tpMemo.val ELSE r.offered
         ctx == contextFromPersisted(r.reg, persisted, r.traceparent, r.active)
     IN  /\ tpMemo' = [set |-> TRUE, val |-> persisted]
         /\ run' = [run EXCEPT !.persisted = persisted,
                                 !.parentCtx = ctx,
                                 !.rootStarted = TRUE,
                                 !.pc = "user"]
  /\ UNCHANGED <<sdkVars, traceVars, helperVars>>
  /\ UNCHANGED <<runCount, sdkResult, doneSteps, payload, userProg, userEnds>>

\* The __traceparent step rejects: the await in run() throws.
TraceparentRejects ==
  /\ Live /\ run.pc = "awaitTraceparent"
  /\ ~tpMemo.set
  /\ run' = [run EXCEPT !.pc = "rejected",
                          !.outcome = [kind |-> "rejected", val |-> InfraError]]
  /\ UNCHANGED <<sdkVars, traceVars, helperVars>>
  /\ UNCHANGED <<runCount, sdkResult, tpMemo, doneSteps, payload, userProg, userEnds>>

\* The user's run function calls a method of the step object it was given.
UserCallsStep(activeAtCall) ==
  /\ Live /\ run.pc = "user"
  /\ run.ip <= Len(userProg)
  /\ LET r == run
         st == userProg[r.ip]
         runCtx == setSpan(r.parentCtx, rootSpanOf(runCount, r.parentCtx))
     IN  run' = [run EXCEPT
           !.calls = Append(@, st),
           !.stepSpans =
              IF st.method \in Intercepted
              THEN Append(@, [name |-> st.name, ip |-> r.ip,
                              parentCtx |-> stepParentContext(runCtx, activeAtCall),
                              activeAtCall |-> activeAtCall, log |-> <<>>])
              ELSE @,
           !.pc = "awaitStep"]
  /\ UNCHANGED <<sdkVars, traceVars, helperVars>>
  /\ UNCHANGED <<runCount, sdkResult, tpMemo, doneSteps, payload, userProg, userEnds>>

\* The pending call on the step object settles. A rejection passes through
\* withSpan to the user's function, which lets it pass to the root span.
StepSettles(how) ==
  /\ Live /\ run.pc = "awaitStep"
  /\ (run.ip \in doneSteps) => how = "fulfilled"
  /\ LET r == run
         st == userProg[r.ip]
         v == IF how = "rejected" THEN StepError ELSE Undefined
         n == Len(r.stepSpans)
         closed == IF st.method \in Intercepted
                   THEN [r.stepSpans EXCEPT ![n].log = @ \o withSpan(how, v)]
                   ELSE r.stepSpans
     IN  /\ run' = [run EXCEPT
              !.stepSpans = closed,
              !.ip = IF how = "fulfilled" THEN @ + 1 ELSE @,
              !.rootLog = IF how = "rejected" THEN @ \o rootSpanSettled(how, v) ELSE @,
              !.outcome = IF how = "rejected"
                               THEN [kind |-> "rejected", val |-> v] ELSE @,
              !.pc = IF how = "rejected" THEN "rejected" ELSE "user"]
         /\ doneSteps' = IF how = "fulfilled" THEN doneSteps \cup {r.ip} ELSE doneSteps
  /\ UNCHANGED <<sdkVars, traceVars, helperVars>>
  /\ UNCHANGED <<runCount, sdkResult, tpMemo, payload, userProg, userEnds>>

\* The user's run function returns or throws after its last step.
UserFinishes ==
  /\ Live /\ run.pc = "user"
  /\ run.ip > Len(userProg)
  /\ LET how == IF userEnds = "throw" THEN "rejected" ELSE "fulfilled"
         v == IF userEnds = "throw" THEN RunError ELSE Num42
     IN  run' = [run EXCEPT
           !.rootLog = @ \o rootSpanSettled(how, v),
           !.outcome = [kind |-> how, val |-> v],
           !.pc = IF how = "rejected" THEN "rejected" ELSE "returned"]
  /\ UNCHANGED <<sdkVars, traceVars, helperVars>>
  /\ UNCHANGED <<runCount, sdkResult, tpMemo, doneSteps, payload, userProg, userEnds>>

\* The process is evicted while run() waits on the step object; the engine
\* may have completed the pending step durably in the meantime.
Hibernate(completed) ==
  /\ Live /\ run.pc \in {"awaitTraceparent", "awaitStep"}
  /\ runCount < MaxRuns
  /\ run' = [run EXCEPT !.pc = "evicted"]
  /\ IF run.pc = "awaitStep" /\ completed
     THEN doneSteps' = doneSteps \cup {run.ip} /\ UNCHANGED tpMemo
     ELSE IF run.pc = "awaitTraceparent" /\ completed /\ ~tpMemo.set
     THEN tpMemo' = [set |-> TRUE, val |-> run.offered] /\ UNCHANGED doneSteps
     ELSE UNCHANGED <<tpMemo, doneSteps>>
  /\ UNCHANGED <<sdkVars, traceVars, helperVars>>
  /\ UNCHANGED <<runCount, sdkResult, payload, userProg, userEnds>>

(***************************************************************************)
(* createTracedStep                                                        *)
(***************************************************************************)

Fn(id) == [type |-> "function", id |-> id, message |-> "", str |-> "function"]

Obj(id) == [type |-> "object", id |-> id, message |-> "", str |-> "[object Object]"]

StrHello == [type |-> "string", id |-> 8, message |-> "", str |-> "hello"]

\* The step object the engine passes to run().
StepObject == Obj(10)

\* The property names read on a step object: the three intercepted methods,
\* a method the Proxy does not know, a data property, an accessor property
\* and a name the step object does not have.
StepProps ==
  {"do", "sleep", "sleepUntil", "waitForEvent", "customProp", "self", "missing"}

\* The properties of the step object. The getter of the accessor property
\* gives a result that depends on its this value: it returns it.
stepProperty(prop) ==
  CASE prop = "do" -> [kind |-> "data", value |-> Fn(11)]
    [] prop = "sleep" -> [kind |-> "data", value |-> Fn(12)]
    [] prop = "sleepUntil" -> [kind |-> "data", value |-> Fn(13)]
    [] prop = "waitForEvent" -> [kind |-> "data", value |-> Fn(14)]
    [] prop = "customProp" -> [kind |-> "data", value |-> StrHello]
    [] prop = "self" -> [kind |-> "accessor", value |-> Undefined]
    [] OTHER -> [kind |-> "absent", value |-> Undefined]

\* Reflect.get(target, prop, receiver): the value of a data property, the
\* result of an accessor's getter called with receiver as its this value,
\* undefined for a property the target does not have.
ReflectGet(prop, receiver) ==
  LET p == stepProperty(prop)
  IN  IF p.kind = "data" THEN p.value
      ELSE IF p.kind = "accessor" THEN receiver
      ELSE Undefined

\* A get trap that builds a wrapper at every access.
getUncached(methodCache, prop, receiver, fresh) ==
  IF prop \in Intercepted
  THEN [value |-> Fn(fresh), methodCache |-> methodCache, created |-> TRUE]
  ELSE [value |-> ReflectGet(prop, receiver), methodCache |-> methodCache,
        created |-> FALSE]

\* index.ts createTracedStep, the get trap of the Proxy: the value the read
\* yields and the methodCache afterwards. `fresh` is the identity of the
\* function a tracedDo / tracedSleep / tracedSleepUntil call would create.
get(methodCache, prop, receiver, fresh) ==
  IF prop \in Intercepted
  THEN IF methodCache[prop] = Undefined
       THEN [value |-> Fn(fresh),
             methodCache |-> [methodCache EXCEPT ![prop] = Fn(fresh)],
             created |-> TRUE]
       ELSE [value |-> methodCache[prop], methodCache |-> methodCache,
             created |-> FALSE]
  ELSE [value |-> ReflectGet(prop, receiver), methodCache |-> methodCache,
        created |-> FALSE]

\* index.ts createTracedStep: the n-th Proxy, with an empty methodCache.
createTracedStep(n) ==
  [n |-> n, proxy |-> Obj(20 + n),
   methodCache |-> [p \in Intercepted |-> Undefined]]

FirstRef == 30

\* The user's run function reads a property of the traced step; `direct` is
\* what the same read yields on the original step object.
ReadProperty(prop) ==
  /\ Len(reads) < MaxReads
  /\ LET r == get(tracedStep.methodCache, prop, tracedStep.proxy, nextRef)
     IN  /\ reads' = Append(reads,
                [step |-> tracedStep.n, prop |-> prop, got |-> r.value,
                 direct |-> ReflectGet(prop, StepObject)])
         /\ tracedStep' = [tracedStep EXCEPT !.methodCache = r.methodCache]
         /\ nextRef' = IF r.created THEN nextRef + 1 ELSE nextRef
  /\ UNCHANGED <<sdkVars, traceVars, wfVars, paramVars, normVars, epVars, libVars>>

\* run() is entered again (a later execution of the workflow): the callback
\* of the workflow.run span creates a new traced step.
NewTracedStep ==
  /\ tracedStep.n < MaxTracedSteps
  /\ tracedStep' = createTracedStep(tracedStep.n + 1)
  /\ UNCHANGED <<nextRef, reads>>
  /\ UNCHANGED <<sdkVars, traceVars, wfVars, paramVars, normVars, epVars, libVars>>

(***************************************************************************)
(* injectTraceparent and extractTraceparent                                *)
(***************************************************************************)

\* The values of the properties of a params object; a string is held as
\* its dash-separated fields.
PStr(tp) == [type |-> "string", tp |-> tp, num |-> 0]

PNum(n) == [type |-> "number", tp |-> <<>>, num |-> n]

PUndefined == [type |-> "undefined", tp |-> <<>>, num |-> 0]

\* An object: its identity and its own properties as key-value pairs.
NoObject == [id |-> 0, props |-> {}]

Keys(o) == {kv[1] : kv \in o.props}

Value(o, key) ==
  IF key \in Keys(o) THEN (CHOOSE kv \in o.props : kv[1] = key)[2]
  ELSE PUndefined

\* The params objects a caller builds: userId and count present or not,
\* __traceparent absent, a string, or a number.
ParamObjects ==
  {[id |-> 1, props |-> u \cup c \cup t] :
     u \in {{}, {<<"userId", PStr(<<"abc">>)>>}},
     c \in {{}, {<<"count", PNum(42)>>}},
     t \in {{}} \cup {{<<"__traceparent", PStr(tp)>>} : tp \in TraceparentStrings}
          \cup {{<<"__traceparent", PNum(7)>>}}}

\* A version that writes the key into the object it was given.
injectTraceparentInPlace(params, registered, active, fresh) ==
  LET mutated ==
        [params EXCEPT !.props =
           {kv \in @ : kv[1] # "__traceparent"}
           \cup {<<"__traceparent", PStr(inject(registered, active))>>}]
  IN  [result |-> mutated, params |-> mutated]

\* index.ts injectTraceparent: the object returned and params afterwards.
\* The spread copies the own properties of params into a new object, then
\* __traceparent is set to carrier.traceparent ?? "".
injectTraceparent(params, registered, active, fresh) ==
  [result |->
     [id |-> fresh,
      props |-> {kv \in params.props : kv[1] # "__traceparent"}
                \cup {<<"__traceparent", PStr(inject(registered, active))>>}],
   params |-> params]

\* A version that leaves __traceparent among the returned params.
extractTraceparentKeep(params, fresh) ==
  [params |-> [id |-> fresh, props |-> params.props],
   traceparent |-> IF Value(params, "__traceparent").type = "string"
                   THEN Value(params, "__traceparent") ELSE PUndefined,
   input |-> params]

\* index.ts extractTraceparent: the rest object, the traceparent and the
\* input afterwards.
extractTraceparent(params, fresh) ==
  [params |-> [id |-> fresh,
               props |-> {kv \in params.props : kv[1] # "__traceparent"}],
   traceparent |-> IF Value(params, "__traceparent").type = "string"
                   THEN Value(params, "__traceparent") ELSE PUndefined,
   input |-> params]

NoCall ==
  [called |-> FALSE, input |-> NoObject, result |-> NoObject,
   traceparent |-> PUndefined, active |-> ROOT_CONTEXT]

\* A caller whose active context is `active` calls injectTraceparent on the
\* params it holds.
CallInject(active) ==
  /\ ~lastInject.called
  /\ LET o == injectTraceparent(wfParams, globals, active, nextObj)
     IN  /\ lastInject' = [called |-> TRUE, input |-> wfParams,
                           result |-> o.result, traceparent |-> PUndefined,
                           active |-> active]
         /\ wfParams' = o.params
  /\ nextObj' = nextObj + 1
  /\ UNCHANGED <<wfParamsIn, lastExtract, hops>>
  /\ UNCHANGED <<sdkVars, traceVars, wfVars, stepVars, normVars, epVars, libVars>>

\* A workflow calls extractTraceparent on the params it holds.
CallExtract ==
  /\ ~lastExtract.called
  /\ LET o == extractTraceparent(wfParams, nextObj)
     IN  /\ lastExtract' = [called |-> TRUE, input |-> wfParams,
                            result |-> o.params, traceparent |-> o.traceparent,
                            active |-> ROOT_CONTEXT]
         /\ wfParams' = o.input
  /\ nextObj' = nextObj + 1
  /\ UNCHANGED <<wfParamsIn, lastInject, hops>>
  /\ UNCHANGED <<sdkVars, traceVars, wfVars, stepVars, normVars, epVars, libVars>>

\* The object injectTraceparent returned is given as params to a child
\* workflow, which holds it as its event payload.
CreateChild ==
  /\ lastInject.called
  /\ hops < MaxHops
  /\ wfParams' = lastInject.result
  /\ wfParamsIn' = lastInject.result
  /\ lastInject' = NoCall
  /\ lastExtract' = NoCall
  /\ hops' = hops + 1
  /\ UNCHANGED nextObj
  /\ UNCHANGED <<sdkVars, traceVars, wfVars, stepVars, normVars, epVars, libVars>>

(***************************************************************************)
(* normalizeEndpoint and resolveSignalEndpoint                             *)
(***************************************************************************)

\* A value of type string | undefined. A string is the sequence of its
\* pieces: a space, a slash, a scheme name with its colon, or a run of
\* other characters.
Undef == [def |-> FALSE, s |-> <<>>]

Str(s) == [def |-> TRUE, s |-> s]

Schemes == {"https:", "http:", "HTTP:"}

UrlPieces == {" ", "/", "a"} \cup {"https:", "HTTP:"}

\* String.prototype.trim.
RECURSIVE trimStart(_)
trimStart(s) ==
  IF s # <<>> /\ Head(s) = " " THEN trimStart(Tail(s)) ELSE s

RECURSIVE trimEnd(_)
trimEnd(s) ==
  IF s # <<>> /\ s[Len(s)] = " " THEN trimEnd(SubSeq(s, 1, Len(s) - 1)) ELSE s

trim(s) == trimEnd(trimStart(s))

\* /^https?:\/\//i.test(s)
hasProtocol(s) ==
  Len(s) >= 3 /\ s[1] \in Schemes /\ s[2] = "/" /\ s[3] = "/"

\* s.replace(/\/+$/, "")
RECURSIVE stripTrailingSlashes(_)
stripTrailingSlashes(s) ==
  IF s # <<>> /\ s[Len(s)] = "/"
  THEN stripTrailingSlashes(SubSeq(s, 1, Len(s) - 1))
  ELSE s

\* A normalisation that keeps trailing slashes.
normalizeEndpointNoStrip(u) ==
  IF ~u.def \/ u.s = <<>> \/ trim(u.s) = <<>> THEN Undef
  ELSE LET t == trim(u.s)
       IN  Str(IF hasProtocol(t) THEN t ELSE <<"https:", "/", "/">> \o t)

\* endpoints.ts normalizeEndpoint.
normalizeEndpoint(u) ==
  IF ~u.def \/ u.s = <<>> \/ trim(u.s) = <<>> THEN Undef
  ELSE LET t == trim(u.s)
           normalized0 == IF hasProtocol(t) THEN t ELSE <<"https:", "/", "/">> \o t
       IN  Str(stripTrailingSlashes(normalized0))

Signals == {"traces", "metrics", "logs"}

\* endpoints.ts SIGNAL_SUFFIX.
SIGNAL_SUFFIX(signal) == <<"/", "v1", "/", signal>>

BaseEnvKey == "OTEL_EXPORTER_OTLP_ENDPOINT"

\* `OTEL_EXPORTER_OTLP_${signalUpper}_ENDPOINT`
SignalEnvKey(signal) ==
  CASE signal = "traces" -> "OTEL_EXPORTER_OTLP_TRACES_ENDPOINT"
    [] signal = "metrics" -> "OTEL_EXPORTER_OTLP_METRICS_ENDPOINT"
    [] signal = "logs" -> "OTEL_EXPORTER_OTLP_LOGS_ENDPOINT"

EnvKeys == {BaseEnvKey} \cup {SignalEnvKey(sg) : sg \in Signals}

\* `${signal}ExporterEndpoint`
configKey(signal) ==
  CASE signal = "traces" -> "tracesExporterEndpoint"
    [] signal = "metrics" -> "metricsExporterEndpoint"
    [] signal = "logs" -> "logsExporterEndpoint"

ConfigFields == {"exporterEndpoint"} \cup {configKey(sg) : sg \in Signals}

\* JavaScript truthiness of a string | undefined.
Truthy(v) == v.def /\ v.s # <<>>

\* A lookup that falls back to the process environment for a key the
\* explicit map does not define.
readEnvFallback(key, config, penv) ==
  IF config.env.present /\ config.env.map[key].def THEN config.env.map[key]
  ELSE IF penv.present THEN penv.map[key]
  ELSE Undef

\* endpoints.ts readEnv.
readEnv(key, config, penv) ==
  IF config.env.present THEN config.env.map[key]
  ELSE IF penv.present THEN penv.map[key]
  ELSE Undef

\* A resolution that looks at the config fields before the environment.
resolveSignalEndpointConfigFirst(signal, config, penv) ==
  LET suffix == SIGNAL_SUFFIX(signal)
      perSignalEnv == readEnv(SignalEnvKey(signal), config, penv)
      baseEnv == readEnv(BaseEnvKey, config, penv)
      perSignalConfig == config.fields[configKey(signal)]
      withSuffix(v) ==
        LET base == normalizeEndpoint(v)
        IN  IF base.def THEN Str(base.s \o suffix) ELSE Undef
  IN  IF Truthy(perSignalConfig) THEN normalizeEndpoint(perSignalConfig)
      ELSE IF Truthy(config.fields["exporterEndpoint"])
      THEN withSuffix(config.fields["exporterEndpoint"])
      ELSE IF Truthy(perSignalEnv) THEN normalizeEndpoint(perSignalEnv)
      ELSE IF Truthy(baseEnv) THEN withSuffix(baseEnv)
      ELSE Undef

\* endpoints.ts resolveSignalEndpoint.
resolveSignalEndpoint(signal, config, penv) ==
  LET suffix == SIGNAL_SUFFIX(signal)
      perSignalEnv == readEnv(SignalEnvKey(signal), config, penv)
      baseEnv == readEnv(BaseEnvKey, config, penv)
      perSignalConfig == config.fields[configKey(signal)]
      withSuffix(v) ==
        LET base == normalizeEndpoint(v)
        IN  IF base.def THEN Str(base.s \o suffix) ELSE Undef
  IN  IF Truthy(perSignalEnv) THEN normalizeEndpoint(perSignalEnv)
      ELSE IF Truthy(baseEnv) THEN withSuffix(baseEnv)
      ELSE IF Truthy(perSignalConfig) THEN normalizeEndpoint(perSignalConfig)
      ELSE IF signal = "metrics" /\ Truthy(config.fields["metricsExporterEndpoint"])
      THEN normalizeEndpoint(config.fields["metricsExporterEndpoint"])
      ELSE IF Truthy(config.fields["exporterEndpoint"])
      THEN withSuffix(config.fields["exporterEndpoint"])
      ELSE Undef

\* normalizeEndpoint is applied to the caller's string, then to its own
\* previous result.
ApplyNormalize ==
  /\ Len(normalized) < MaxApplications
  /\ normalized' = Append(normalized,
        normalizeEndpoint(IF normalized = <<>> THEN url
                          ELSE normalized[Len(normalized)]))
  /\ UNCHANGED url
  /\ UNCHANGED <<sdkVars, traceVars, wfVars, stepVars, paramVars, epVars, libVars>>

NoResult == [called |-> FALSE, value |-> Undef]

\* An adapter's setup calls resolveSignalEndpoint(signal, config).
CallResolve ==
  /\ ~epResult.called
  /\ epResult' = [called |-> TRUE,
                  value |-> resolveSignalEndpoint(epSignal, epConfig, processEnv)]
  /\ UNCHANGED <<epSignal, epConfig, processEnv>>
  /\ UNCHANGED <<sdkVars, traceVars, wfVars, stepVars, paramVars, normVars, libVars>>

(***************************************************************************)
(* buildResource                                                           *)
(***************************************************************************)

ATTR_SERVICE_NAME == <<"service.name">>

ATTR_DEPLOYMENT_ENVIRONMENT_NAME == <<"deployment.environment.name">>

ATTR_SERVICE_NAMESPACE == <<"service.namespace">>

\* A set of attributes: pairs of a key and a value, both strings held as
\* sequences of pieces, with at most one pair per key.
AttrKeys(attrs) == {kv[1] : kv \in attrs}

Attr(attrs, key) ==
  IF key \in AttrKeys(attrs)
  THEN Str((CHOOSE kv \in attrs : kv[1] = key)[2])
  ELSE Undef

\* attrs[key] = value
Put(attrs, key, value) == {kv \in attrs : kv[1] # key} \cup {<<key, value>>}

\* A merge in which the receiver's values win.
mergeKeepFirst(a, b) == a \cup {kv \in b : kv[1] \notin AttrKeys(a)}

\* Resource.merge(other): the attributes of other take precedence.
merge(a, b) == b \cup {kv \in a : kv[1] \notin AttrKeys(b)}

\* raw.split(","): the pieces between the commas.
RECURSIVE split(_)
split(raw) ==
  IF \A i \in 1..Len(raw) : raw[i] # "," THEN <<raw>>
  ELSE LET c == CHOOSE i \in 1..Len(raw) :
                  raw[i] = "," /\ \A j \in 1..(i - 1) : raw[j] # ","
       IN  <<SubSeq(raw, 1, c - 1)>> \o split(SubSeq(raw, c + 1, Len(raw)))

\* pair.indexOf("="), counted from 0; -1 when there is none.
indexOf(pair) ==
  IF \A i \in 1..Len(pair) : pair[i] # "=" THEN -1
  ELSE (CHOOSE i \in 1..Len(pair) :
          pair[i] = "=" /\ \A j \in 1..(i - 1) : pair[j] # "=") - 1

\* decodeURIComponent: "%20" is an escape of the space, a "%" piece is an
\* escape that cannot be decoded and makes the function throw URIError.
decodeURIComponent(v) ==
  [threw |-> \E i \in 1..Len(v) : v[i] = "%",
   s |-> [i \in 1..Len(v) |-> IF v[i] = "%20" THEN " " ELSE v[i]]]

\* resource.ts parseEnvResourceAttributes, the loop over the pairs.
RECURSIVE parsePairs(_, _)
parsePairs(pairs, attrs) ==
  IF pairs = <<>> THEN [threw |-> FALSE, attrs |-> attrs]
  ELSE LET pair == Head(pairs)
           idx == indexOf(pair)
           key == trim(SubSeq(pair, 1, idx))
           value == trim(SubSeq(pair, idx + 2, Len(pair)))
       IN  IF idx <= 0 \/ key = <<>> THEN parsePairs(Tail(pairs), attrs)
           ELSE IF decodeURIComponent(value).threw
           THEN [threw |-> TRUE, attrs |-> attrs]
           ELSE parsePairs(Tail(pairs),
                           Put(attrs, key, decodeURIComponent(value).s))

\* A parse in which service.name of the attribute list wins over
\* OTEL_SERVICE_NAME.
parseEnvResourceAttributesListFirst(env) ==
  LET raw == env.OTEL_RESOURCE_ATTRIBUTES
      serviceName == IF env.OTEL_SERVICE_NAME.def
                     THEN trim(env.OTEL_SERVICE_NAME.s) ELSE <<>>
      fromName == IF serviceName # <<>>
                  THEN {<<ATTR_SERVICE_NAME, serviceName>>} ELSE {}
      parsed == IF Truthy(raw) THEN parsePairs(split(raw.s), fromName)
                ELSE [threw |-> FALSE, attrs |-> fromName]
  IN  parsed

\* resource.ts parseEnvResourceAttributes.
parseEnvResourceAttributes(env) ==
  LET raw == env.OTEL_RESOURCE_ATTRIBUTES
      parsed == IF Truthy(raw) THEN parsePairs(split(raw.s), {})
                ELSE [threw |-> FALSE, attrs |-> {}]
      serviceName == IF env.OTEL_SERVICE_NAME.def
                     THEN trim(env.OTEL_SERVICE_NAME.s) ELSE <<>>
  IN  IF parsed.threw THEN parsed
      ELSE [threw |-> FALSE,
            attrs |-> IF serviceName # <<>>
                      THEN Put(parsed.attrs, ATTR_SERVICE_NAME, serviceName)
                      ELSE parsed.attrs]

\* Default attributes without a service name.
defaultResourceNoName == {<<<<"telemetry.sdk.language">>, <<"nodejs">>>>}

\* defaultResource(): the SDK's own attributes and the placeholder name.
defaultResource ==
  {<<ATTR_SERVICE_NAME, <<"unknown_service:node">>>>,
   <<<<"telemetry.sdk.language">>, <<"nodejs">>>>}

\* detectResources({ detectors }): the detectors' attributes merged in order.
RECURSIVE detectResources(_)
detectResources(detectors) ==
  IF detectors = <<>> THEN {}
  ELSE merge(detectResources(SubSeq(detectors, 1, Len(detectors) - 1)),
             detectors[Len(detectors)])

\* /^unknown_service/.test(serviceName)
unknownService(name) ==
  name # <<>> /\ name[1] \in {"unknown_service:node", "unknown_service"}

\* resource.ts buildResource, lines 78-104: the four layers.
layers(config, runtimeDetectors) ==
  LET configAttrs ==
        IF config.serviceName.def
        THEN Put(config.resourceAttributes, ATTR_SERVICE_NAME, config.serviceName.s)
        ELSE config.resourceAttributes
      env == IF config.env.present
             THEN parseEnvResourceAttributes(config.env.map)
             ELSE [threw |-> FALSE, attrs |-> {}]
  IN  [threw |-> env.threw,
       list |-> <<defaultResource, configAttrs,
                  detectResources(runtimeDetectors), env.attrs>>]

\* A fallback that writes "local" over whatever the layers gave.
ttyFallbackAlways(resource, tty) ==
  IF tty
  THEN merge(resource, {<<ATTR_DEPLOYMENT_ENVIRONMENT_NAME, <<"local">>>>,
                        <<ATTR_SERVICE_NAMESPACE, <<"local">>>>})
  ELSE resource

\* resource.ts buildResource, lines 111-123: the terminal fallback.
ttyFallback(resource, tty) ==
  LET deployEnv == Attr(resource, ATTR_DEPLOYMENT_ENVIRONMENT_NAME)
      serviceNs == Attr(resource, ATTR_SERVICE_NAMESPACE)
      ttyAttrs ==
        (IF ~Truthy(deployEnv) /\ tty
         THEN {<<ATTR_DEPLOYMENT_ENVIRONMENT_NAME, <<"local">>>>} ELSE {})
        \cup (IF ~Truthy(serviceNs) /\ tty
               THEN {<<ATTR_SERVICE_NAMESPACE, <<"local">>>>} ELSE {})
  IN  merge(resource, ttyAttrs)

\* resource.ts buildResource, lines 125-143: the warnings, each named by
\* the attribute it is about.
warningsOf(merged, resource) ==
  LET serviceName == Attr(merged, ATTR_SERVICE_NAME)
  IN  (IF ~Truthy(serviceName) \/ unknownService(serviceName.s)
       THEN {ATTR_SERVICE_NAME} ELSE {})
      \cup (IF ~Truthy(Attr(resource, ATTR_DEPLOYMENT_ENVIRONMENT_NAME))
             THEN {ATTR_DEPLOYMENT_ENVIRONMENT_NAME} ELSE {})
      \cup (IF ~Truthy(Attr(resource, ATTR_SERVICE_NAMESPACE))
             THEN {ATTR_SERVICE_NAMESPACE} ELSE {})

\* resource.ts buildResource.
buildResource(config, runtimeDetectors, tty) ==
  LET l == layers(config, runtimeDetectors)
      merged == merge(merge(merge(l.list[1], l.list[2]), l.list[3]), l.list[4])
      resource == ttyFallback(merged, tty)
  IN  IF l.threw
      THEN [threw |-> TRUE, resource |-> {}, warnings |-> {}]
      ELSE [threw |-> FALSE, resource |-> resource,
            warnings |-> warningsOf(merged, resource)]

NoBuild == [called |-> FALSE, threw |-> FALSE, resource |-> {}, warnings |-> {}]

\* An adapter's setup calls buildResource(config, runtimeDetectors).
CallBuildResource ==
  /\ ~rsResult.called
  /\ LET o == buildResource(rsConfig, rsDetectors, rsTTY)
     IN  rsResult' = [called |-> TRUE, threw |-> o.threw,
                      resource |-> o.resource, warnings |-> o.warnings]
  /\ UNCHANGED <<rsConfig, rsDetectors, rsTTY>>
  /\ UNCHANGED notRs

NoResolve == [called |-> FALSE, runtimeName |-> "", registered |-> <<>>,
              threw |-> FALSE, adapter |-> noopAdapter]

\* A caller invokes resolve(runtimeName); "" stands for an omitted name.
CallResolveAdapter(runtimeName) ==
  /\ LET r == resolve(adapters, runtimeName, runtimeEnv)
     IN  lastResolve' = [called |-> TRUE, runtimeName |-> runtimeName,
                         registered |-> adapters,
                         threw |-> r.threw, adapter |-> r.adapter]
  /\ UNCHANGED sdkVars
  /\ UNCHANGED notReg

\* The entry points instrument() and instrumentWorkflow() wrap.
EntryPoints == {"fetch", "scheduled", "queue", "workflow"}

Invocations == 1..MaxInvocations

NoInvocation ==
  [kind |-> "none", pc |-> "idle", saw |-> NoHandle, log |-> <<>>,
   flush |-> "none", outcome |-> "none", span |-> 0, epoch |-> 0,
   reconfigured |-> FALSE, flushedOn |-> NoHandle]

\* What the call of initSDK that filled the handle was given and returned.
NoFirst ==
  [set |-> FALSE, result |-> noopSDKResult,
   cfg |-> [runtime |-> "", metrics |-> FALSE, fault |-> "none"]]

\* A span nobody has started.
NoSpanEntry ==
  [started |-> FALSE, status |-> {}, exceptions |-> {}, ends |-> <<>>]

\* The invocations are entered in the order of their numbers.
NextInvocation(i) ==
  /\ invs[i].pc = "idle"
  /\ \A j \in Invocations : j < i => invs[j].pc # "idle"

\* instrument.ts flush: sdkResult.forceFlush() is called when the task is
\* made; with no handle the task is an already resolved promise.
flush(handle) == IF ~handle.set THEN "settled" ELSE "pending"

\* A wrapper that registers its flush before it ends the span.
finallyFlushFirst(log, threw) ==
  log \o <<"waitUntil", "span.end", IF threw THEN "throw" ELSE "return">>

\* instrument.ts, the finally block of traceHandler and of the scheduled
\* and queue wrappers, followed by the delivery of the result.
finally(log, threw) ==
  log \o <<"span.end", "waitUntil", IF threw THEN "throw" ELSE "return">>

\* index.ts instrumentWorkflow: the root span ends, nothing is flushed.
finallyWorkflow(log, threw) ==
  log \o <<"span.end", IF threw THEN "throw" ELSE "return">>

\* The span most recently started in the process.
lastStartedSpan(i) ==
  CHOOSE j \in Invocations :
    /\ invs[j].pc # "idle"
    /\ \A k \in Invocations : invs[k].pc # "idle" => k <= j

\* instrument.ts `let span` and `span = s`: the variable is local to the
\* invocation and holds the span its own callback was handed.
ownSpan(i) == invs[i].span

\* The settling invocation i marks the span sp after an error.
spanMarked(table, sp, i) ==
  [table EXCEPT ![sp].status = @ \cup {i}, ![sp].exceptions = @ \cup {i}]

\* The settling invocation i ends the span sp.
spanEnded(table, sp, i) == [table EXCEPT ![sp].ends = Append(@, i)]

\* An entry point is invoked: the code up to the first await, that is
\* ensureSDK, the start of the span and the call of the original handler.
\* insInits counts the calls of initSDK since the handle was last empty
\* at construction or by a reset.
Enter(i, kind, cfg) ==
  /\ NextInvocation(i)
  /\ LET sdk == ensureSDK(insHandle, adapters, cfg, runtimeEnv)
     IN  /\ insHandle' = sdk.handle
         /\ insInits' = insInits + (IF sdk.called THEN 1 ELSE 0)
         /\ insFirst' = IF sdk.called /\ insInits = 0
                        THEN [set |-> TRUE, cfg |-> cfg,
                              result |-> sdk.handle.result]
                        ELSE insFirst
         /\ globals' = globals \cup sdk.registered
         /\ invs' = [invs EXCEPT ![i] =
              [kind |-> kind, pc |-> "handler", saw |-> sdk.handle,
               log |-> <<"ensureSDK", "span.start", "handler">>,
               flush |-> "none", outcome |-> "none", span |-> i,
               epoch |-> insResets,
               reconfigured |-> insFirst.set /\ insFirst.cfg # cfg,
               flushedOn |-> NoHandle]]
         /\ insSpans' = [insSpans EXCEPT ![i].started = TRUE]
  /\ UNCHANGED <<adapters, runtimeEnv, initCount, lastInit, insResets>>
  /\ UNCHANGED notIns

\* The original handler settles; `handlerThrew` tells how. For fetch the
\* response is then rebuilt and the context injected, which can throw
\* (`responseThrew`). The catch block marks the span, the finally block
\* ends it and registers the flush, and the outcome reaches the caller.
Settle(i, handlerThrew, responseThrew) ==
  /\ invs[i].pc = "handler"
  /\ responseThrew => invs[i].kind = "fetch" /\ ~handlerThrew
  /\ LET threw == handlerThrew \/ responseThrew
         log0  == IF threw THEN invs[i].log \o <<"catch">> ELSE invs[i].log
     IN  /\ invs' = [invs EXCEPT ![i] =
           [@ EXCEPT !.pc = "done",
                     !.log = IF invs[i].kind = "workflow"
                             THEN finallyWorkflow(log0, threw)
                             ELSE finally(log0, threw),
                     !.flush = IF invs[i].kind = "workflow" THEN "none"
                               ELSE flush(insHandle),
                     !.flushedOn = IF invs[i].kind = "workflow"
                                   THEN NoHandle ELSE insHandle,
                     !.outcome = IF threw THEN "threw" ELSE "returned"]]
         /\ insSpans' =
              spanEnded(IF threw THEN spanMarked(insSpans, ownSpan(i), i)
                                 ELSE insSpans,
                        ownSpan(i), i)
  /\ UNCHANGED <<insHandle, insInits, insFirst, insResets>>
  /\ UNCHANGED sdkVars
  /\ UNCHANGED notIns

\* The flush a finished invocation left with ctx.waitUntil settles.
FlushSettles(i) ==
  /\ invs[i].pc = "done" /\ invs[i].flush = "pending"
  /\ invs' = [invs EXCEPT ![i].flush = "settled",
                          ![i].log = Append(@, "flush.settled")]
  /\ UNCHANGED <<insHandle, insInits, insFirst, insResets, insSpans>>
  /\ UNCHANGED sdkVars
  /\ UNCHANGED notIns

\* instrument.ts _resetInstrumentState: the handle is emptied; what the
\* earlier initialisation registered stays registered.
Reset ==
  /\ insResets < MaxResets
  /\ insHandle' = NoHandle
  /\ insInits' = 0
  /\ insFirst' = NoFirst
  /\ insResets' = insResets + 1
  /\ UNCHANGED <<invs, insSpans>>
  /\ UNCHANGED sdkVars
  /\ UNCHANGED notIns

\* The statements of a built-in setup that can raise an exception, in the
\* order of the code: buildResource, the construction of the exporter and
\* pipeline of each signal, NodeSDK.start, and the creation and use of the
\* logger.
SetupSteps ==
  {"buildResource", "traces", "metrics", "logs", "start", "logger"}

\* No statement raises.
NoFault == "none"

\* runtimes/cloudflare/worker.ts setup, the order of its statements.
cloudflareOrder ==
  <<"buildResource", "traces", "propagator", "metrics", "logs", "logger">>

\* runtimes/node.ts setup, the order of its statements.
nodeOrder ==
  <<"buildResource", "traces", "metrics", "logs", "start", "logger">>

\* The signals whose endpoint is truthy: `if (tracesEndpoint)` and the
\* like.
enabledSignals(config, penv) ==
  {sg \in Signals : Truthy(resolveSignalEndpoint(sg, config, penv))}

\* The place of the first statement of `order` that raises: a statement
\* about a signal is only executed when the signal is enabled.
failAt(order, enabled, fault) ==
  LET hits == {k \in DOMAIN order :
                 /\ order[k] = fault
                 /\ order[k] \in Signals => order[k] \in enabled}
  IN  IF hits = {} THEN Len(order) + 1
      ELSE CHOOSE k \in hits : \A j \in hits : k <= j

\* The statements of `order` that completed before the exception, if any.
completedSteps(order, enabled, fault) ==
  {order[k] : k \in 1..(failAt(order, enabled, fault) - 1)}

\* A cloudflare setup that registers the propagator only with a tracer
\* provider.
cloudflareGlobalsGated(done, enabled) ==
  (IF "traces" \in done \cap enabled THEN {"tracerProvider", "propagator"}
   ELSE {})
  \cup (IF "metrics" \in done \cap enabled THEN {"meterProvider"} ELSE {})
  \cup (IF "logs" \in done \cap enabled THEN {"loggerProvider"} ELSE {})

\* The globals the completed statements of the cloudflare setup registered.
cloudflareGlobals(done, enabled) ==
  (IF "traces" \in done \cap enabled THEN {"tracerProvider"} ELSE {})
  \cup (IF "propagator" \in done THEN {"propagator"} ELSE {})
  \cup (IF "metrics" \in done \cap enabled THEN {"meterProvider"} ELSE {})
  \cup (IF "logs" \in done \cap enabled THEN {"loggerProvider"} ELSE {})

\* sdk.start() of the node setup registers the tracer provider with its
\* propagators, and the meter and logger providers it was given a reader
\* or a processor for.
nodeGlobals(done, enabled) ==
  IF "start" \notin done THEN {}
  ELSE {"tracerProvider", "propagator"}
       \cup (IF "metrics" \in enabled THEN {"meterProvider"} ELSE {})
       \cup (IF "logs" \in enabled THEN {"loggerProvider"} ELSE {})

\* The SDKResult a setup that ran to its end returns.
composedResult(adapter, enabled) ==
  [provider |-> IF adapter = "node" \/ "traces" \in enabled
                THEN "tracerProvider" ELSE "globalTracerProvider",
   meterProvider |-> IF "metrics" \in enabled THEN "meterProvider"
                     ELSE "undefined",
   loggerProvider |-> IF "logs" \in enabled THEN "loggerProvider"
                      ELSE "undefined",
   logger |-> "logger", shutdown |-> "guarded", forceFlush |-> "guarded"]

\* setup(config) of the cloudflare-worker and of the node adapter: the
\* whole body is in a try block whose catch returns noopSDKResult().
builtinSetup(adapter, config, penv, fault) ==
  LET order   == IF adapter = "node" THEN nodeOrder ELSE cloudflareOrder
      enabled == enabledSignals(config, penv)
      done    == completedSteps(order, enabled, fault)
      failed  == failAt(order, enabled, fault) <= Len(order)
      globs   == IF adapter = "node" THEN nodeGlobals(done, enabled)
                 ELSE cloudflareGlobals(done, enabled)
  IN  [failed |-> failed,
       result |-> IF failed THEN noopSDKResult
                  ELSE composedResult(adapter, enabled),
       registered |-> globs,
       exporters |-> done \cap enabled]

NoSetup ==
  [called |-> FALSE, fault |-> NoFault, failed |-> FALSE,
   result |-> noopSDKResult, registered |-> {}, exporters |-> {}]

\* The adapter's setup is called in a process with no global registered;
\* `fault` is the statement that raises, if one does.
CallSetup(fault) ==
  /\ ~suResult.called
  /\ LET o == builtinSetup(suAdapter, suConfig, suProcessEnv, fault)
     IN  suResult' = [called |-> TRUE, fault |-> fault, failed |-> o.failed,
                      result |-> o.result, registered |-> o.registered,
                      exporters |-> o.exporters]
  /\ UNCHANGED <<suAdapter, suConfig, suProcessEnv>>
  /\ UNCHANGED notSu

(***************************************************************************)
(* createLogger                                                            *)
(***************************************************************************)

LogLevels == {"debug", "info", "warn", "error"}

\* logger.ts createLogger: the writer chosen from the runtime.
Writers == {"pino", "builtinNode", "console"}

\* logger.ts createPinoWriter, createBuiltinNodeWriter, createConsoleWriter:
\* each returned writer formats and writes inside its own try block, so an
\* exception of the sink (`sinkThrows`) stays in the writer.
stderrWriter(writer, level, sinkThrows) ==
  [threw |-> FALSE, written |-> ~sinkThrows]

\* logger.ts emitOtlp: logs.getLogger(...).emit(...) inside a try block.
emitOtlp(level, emitThrows) ==
  [threw |-> FALSE, attempted |-> TRUE, emitted |-> ~emitThrows]

NoEmit == [threw |-> FALSE, attempted |-> FALSE, emitted |-> FALSE]

\* A log that emits only what it could write to stderr.
logAfterWrite(writer, level, sinkThrows, emitThrows) ==
  LET w == stderrWriter(writer, level, sinkThrows)
      e == IF w.written THEN emitOtlp(level, emitThrows) ELSE NoEmit
  IN  [threw |-> e.threw, written |-> w.written,
       attempted |-> e.attempted, emitted |-> e.emitted]

\* logger.ts createLogger, the inner function log: the writer in a try
\* block of its own, then emitOtlp.
logFn(writer, level, sinkThrows, emitThrows) ==
  LET w == stderrWriter(writer, level, sinkThrows)
      e == emitOtlp(level, emitThrows)
  IN  [threw |-> e.threw, written |-> w.written,
       attempted |-> e.attempted, emitted |-> e.emitted]

\* logger.ts createLogger, a method of the returned logger:
\* `try { log(level, ...) } catch { }`.
logMethod(writer, level, sinkThrows, emitThrows) ==
  LET r == logFn(writer, level, sinkThrows, emitThrows)
  IN  [r EXCEPT !.threw = FALSE]

\* A caller invokes logger[level](message, ...); the sink and the OTLP
\* logger behave as `sinkThrows` and `emitThrows` say.
CallLog(level, message, sinkThrows, emitThrows) ==
  /\ Len(lgCalls) < MaxLogCalls
  /\ LET r == logMethod(lgWriter, level, sinkThrows, emitThrows)
     IN  lgCalls' = Append(lgCalls,
           [level |-> level, message |-> message, sinkThrows |-> sinkThrows,
            emitThrows |-> emitThrows, threw |-> r.threw,
            written |-> r.written, attempted |-> r.attempted,
            emitted |-> r.emitted])
  /\ UNCHANGED lgWriter
  /\ UNCHANGED notLg

(***************************************************************************)
(* traceHandler: trace context of the request and of the response          *)
(***************************************************************************)

\* The span context of the SERVER span a registered tracer provider makes:
\* a new span id, in the trace of the parent when the parent has one.
ServerSpan(parentCtx) ==
  [traceId |-> IF parentCtx.span # NoSpan THEN parentCtx.span.traceId
               ELSE "t9",
   spanId |-> "s9", remote |-> FALSE, run |-> 0]

\* tracer.startActiveSpan(name, options, extractedCtx, fn): without a
\* tracer provider the API gives a non-recording span that carries the
\* span context of the parent.
startActiveSpan(registered, parentCtx) ==
  IF "tracerProvider" \in registered THEN ServerSpan(parentCtx)
  ELSE parentCtx.span

\* instrument.ts traceHandler: extract from the request headers, run the
\* handler in the SERVER span, and after startActiveSpan has returned
\* inject context.active() into the headers of the new response.
traceHandler(registered, active, header, handlerThrew) ==
  LET extractedCtx == extract(registered, active, header)
      span == startActiveSpan(registered, extractedCtx)
  IN  [span |-> span, threw |-> handlerThrew,
       injected |-> IF handlerThrew THEN EmptyString
                    ELSE inject(registered, active)]

NoTraceHandler ==
  [called |-> FALSE, span |-> NoSpan, threw |-> FALSE,
   injected |-> EmptyString]

\* traceHandler(ctx, request, opts) is called and settles.
CallTraceHandler(handlerThrew) ==
  /\ ~thResult.called
  /\ LET r == traceHandler(thRegistered, thActive, thHeader, handlerThrew)
     IN  thResult' = [called |-> TRUE, span |-> r.span, threw |-> r.threw,
                      injected |-> r.injected]
  /\ UNCHANGED <<thHeader, thActive, thRegistered>>
  /\ UNCHANGED notTh

(***************************************************************************)
(* instrumentFetch                                                         *)
(***************************************************************************)

\* What the underlying fetch does: it resolves with a response of some
\* status, with or without a traceparent header, or rejects with a value.
FetchOutcomes ==
  [kind : {"resolved"}, status : {200, 404, 503}, traceparent : BOOLEAN,
   error : {Undefined}]
  \cup [kind : {"rejected"}, status : {0}, traceparent : {FALSE},
         error : ThrownValues]

\* The attributes the try block sets on the span of a resolved fetch.
responseAttributes(o) ==
  {"http.status_code"}
  \cup (IF o.traceparent THEN {"http.response.traceparent"} ELSE {})

\* An instrumented fetch whose catch block does not log.
instrumentedFetchSilentCatch(logger, o) ==
  IF o.kind = "resolved"
  THEN [rejected |-> FALSE, thrown |-> Undefined,
        infos |-> IF logger THEN 1 ELSE 0, errors |-> 0,
        status |-> IF o.status >= 500 THEN "ERROR" ELSE "UNSET",
        message |-> "", exceptions |-> <<>>, ends |-> 1,
        attributes |-> responseAttributes(o)]
  ELSE [rejected |-> TRUE, thrown |-> o.error,
        infos |-> 0, errors |-> 0,
        status |-> "ERROR", message |-> statusMessage(o.error),
        exceptions |-> <<o.error>>, ends |-> 1, attributes |-> {}]

\* instrument-fetch.ts instrumentedFetch, the callback of startActiveSpan:
\* the try block up to logger.info and `return response`, the catch block
\* with setStatus, recordException, logger.error and `throw error`, and
\* the finally block with span.end().
instrumentedFetch(logger, o) ==
  IF o.kind = "resolved"
  THEN [rejected |-> FALSE, thrown |-> Undefined,
        infos |-> IF logger THEN 1 ELSE 0, errors |-> 0,
        status |-> IF o.status >= 500 THEN "ERROR" ELSE "UNSET",
        message |-> "", exceptions |-> <<>>, ends |-> 1,
        attributes |-> responseAttributes(o)]
  ELSE [rejected |-> TRUE, thrown |-> o.error,
        infos |-> 0, errors |-> IF logger THEN 1 ELSE 0,
        status |-> "ERROR", message |-> statusMessage(o.error),
        exceptions |-> <<o.error>>, ends |-> 1, attributes |-> {}]

\* The instrumented fetch is called and the underlying fetch settles as
\* `o` says.
CallFetch(o) ==
  /\ Len(ifCalls) < MaxFetchCalls
  /\ ifCalls' = Append(ifCalls,
        [fetch |-> o, out |-> instrumentedFetch(ifLogger, o)])
  /\ UNCHANGED ifLogger
  /\ UNCHANGED notIf

(***************************************************************************)
(* shutdown and forceFlush of an SDKResult                                 *)
(***************************************************************************)

\* The order in which the cloudflare result awaits its providers.
providerOrder == <<"traces", "metrics", "logs">>

\* The providers whose operation is called by a sequence of awaits that
\* stops at the first rejection: those up to the first rejecting one.
RECURSIVE awaitInOrder(_, _, _)
awaitInOrder(k, present, rejecting) ==
  IF k > Len(providerOrder) THEN [called |-> {}, rejected |-> FALSE]
  ELSE IF providerOrder[k] \notin present
  THEN awaitInOrder(k + 1, present, rejecting)
  ELSE IF providerOrder[k] \in rejecting
  THEN [called |-> {providerOrder[k]}, rejected |-> TRUE]
  ELSE LET rest == awaitInOrder(k + 1, present, rejecting)
       IN  [called |-> {providerOrder[k]} \cup rest.called,
            rejected |-> rest.rejected]

\* What the try block of an operation does: the cloudflare result awaits
\* its own providers in order, the node result awaits sdk.shutdown() or
\* Promise.all over the global providers, the no-op result does nothing.
tryBlock(adapter, present, rejecting) ==
  CASE adapter = "cloudflare" -> awaitInOrder(1, present, rejecting)
    [] adapter = "node" ->
         [called |-> present, rejected |-> present \cap rejecting # {}]
    [] OTHER -> [called |-> {}, rejected |-> FALSE]

\* SDKResult.shutdown: `try { ... } catch { }`.
shutdown(adapter, present, rejecting) ==
  LET t == tryBlock(adapter, present, rejecting)
  IN  [settled |-> "resolved", called |-> t.called, warnings |-> 0]

\* A forceFlush without its catch block.
forceFlushNoCatch(adapter, present, rejecting) ==
  LET t == tryBlock(adapter, present, rejecting)
  IN  [settled |-> IF t.rejected THEN "rejected" ELSE "resolved",
       called |-> t.called, warnings |-> 0]

\* SDKResult.forceFlush: `try { ... } catch (err) { logger.warn(...) }`;
\* the logger does not throw.
forceFlush(adapter, present, rejecting) ==
  LET t == tryBlock(adapter, present, rejecting)
  IN  [settled |-> "resolved", called |-> t.called,
       warnings |-> IF t.rejected THEN 1 ELSE 0]

\* A caller invokes result.shutdown() or result.forceFlush(); the
\* operations of the providers in `rejecting` reject.
CallLifecycle(op, rejecting) ==
  /\ Len(lcCalls) < MaxLifecycleCalls
  /\ LET r == IF op = "shutdown" THEN shutdown(lcAdapter, lcEnabled, rejecting)
              ELSE forceFlush(lcAdapter, lcEnabled, rejecting)
     IN  lcCalls' = Append(lcCalls,
           [op |-> op, rejecting |-> rejecting, settled |-> r.settled,
            called |-> r.called, warnings |-> r.warnings])
  /\ UNCHANGED <<lcAdapter, lcEnabled>>
  /\ UNCHANGED notLc

NoInit ==
  [called |-> FALSE, threw |-> FALSE, result |-> <<>>, resolveThrew |-> FALSE,
   setupThrew |-> FALSE]

SDKIdle ==
  /\ adapters = <<cloudflareWorkerAdapter, nodeAdapter>>
  /\ initCount = 0
  /\ lastInit = NoInit

TraceIdle == spans = <<>>

WfIdle ==
  /\ sdkResult = NoHandle
  /\ tpMemo = [set |-> FALSE, val |-> EmptyString]
  /\ doneSteps = {}
  /\ payload = [present |-> FALSE, tp |-> EmptyString]
  /\ userProg = <<>>
  /\ userEnds = "return"
  /\ run = NoRun
  /\ runCount = 0

StepIdle ==
  /\ tracedStep = createTracedStep(1)
  /\ nextRef = FirstRef
  /\ reads = <<>>

ParamIdle ==
  /\ wfParams = NoObject
  /\ wfParamsIn = NoObject
  /\ lastInject = NoCall
  /\ lastExtract = NoCall
  /\ hops = 0
  /\ nextObj = 2

NoEnv == [present |-> FALSE, map |-> [k \in EnvKeys |-> Undef]]

NormIdle ==
  /\ url = Undef
  /\ normalized = <<>>

EpIdle ==
  /\ epSignal = "traces"
  /\ epConfig = [env |-> NoEnv, fields |-> [f \in ConfigFields |-> Undef]]
  /\ processEnv = NoEnv
  /\ epResult = NoResult

NoResourceEnv ==
  [present |-> FALSE,
   map |-> [OTEL_SERVICE_NAME |-> Undef, OTEL_RESOURCE_ATTRIBUTES |-> Undef]]

RsIdle ==
  /\ rsConfig = [serviceName |-> Undef, resourceAttributes |-> {},
                 env |-> NoResourceEnv]
  /\ rsDetectors = <<>>
  /\ rsTTY = FALSE
  /\ rsResult = NoBuild

RegIdle == lastResolve = NoResolve

InsIdle ==
  /\ insHandle = NoHandle
  /\ insInits = 0
  /\ invs = [i \in Invocations |-> NoInvocation]
  /\ insFirst = NoFirst
  /\ insResets = 0
  /\ insSpans = [i \in Invocations |-> NoSpanEntry]

SuIdle ==
  /\ suAdapter = "cloudflare"
  /\ suConfig = [env |-> NoEnv, fields |-> [f \in ConfigFields |-> Undef]]
  /\ suProcessEnv = NoEnv
  /\ suResult = NoSetup

LgIdle == lgWriter = "console" /\ lgCalls = <<>>

ThIdle ==
  /\ thHeader = EmptyString
  /\ thActive = ROOT_CONTEXT
  /\ thRegistered = {}
  /\ thResult = NoTraceHandler

IfIdle == ifLogger = FALSE /\ ifCalls = <<>>

LcIdle == lcAdapter = "noop" /\ lcEnabled = {} /\ lcCalls = <<>>

ExtIdle == LgIdle /\ ThIdle /\ IfIdle /\ LcIdle

LibIdle == RsIdle /\ RegIdle /\ InsIdle /\ SuIdle /\ ExtIdle

HelperIdle == StepIdle /\ ParamIdle /\ NormIdle /\ EpIdle /\ LibIdle

\* The registry after module load, in any runtime.
SDKInit ==
  /\ SDKIdle
  /\ runtimeEnv \in [cloudflare : BOOLEAN, node : BOOLEAN]
  /\ globals = {}
  /\ TraceIdle
  /\ HelperIdle
  /\ WfIdle

\* registry.ts register: append to the shared list.
Register(a) ==
  /\ Len(adapters) < MaxAdapters
  /\ adapters' = Append(adapters, a)
  /\ UNCHANGED <<runtimeEnv, globals, initCount, lastInit>>
  /\ UNCHANGED <<traceVars, wfVars, helperVars>>

\* A caller invokes initSDK(config).
CallInitSDK(cfg) ==
  /\ initCount < MaxInits
  /\ LET o == initSDK(adapters, cfg, runtimeEnv)
     IN  /\ lastInit' = [called |-> TRUE, threw |-> o.threw, result |-> o.result,
                         resolveThrew |-> o.resolveThrew,
                         setupThrew |-> o.setupThrew]
         /\ globals' = globals \cup o.registered
  /\ initCount' = initCount + 1
  /\ UNCHANGED <<adapters, runtimeEnv>>
  /\ UNCHANGED <<traceVars, wfVars, helperVars>>

SDKRegister == \E a \in CustomAdapters : Register(a)

SDKCall == \E cfg \in SDKConfigs : CallInitSDK(cfg)

SDKNext == SDKRegister \/ SDKCall

SpecSDK == SDKInit /\ [][SDKNext]_vars

\* withTrace can be called before or after a propagator was registered.
TraceInit ==
  /\ SDKIdle
  /\ runtimeEnv = [cloudflare |-> FALSE, node |-> TRUE]
  /\ globals \in {{}, {"propagator"}}
  /\ TraceIdle
  /\ HelperIdle
  /\ WfIdle

TraceCall ==
  \E parent \in ParentOpts, active \in AmbientContexts, b \in FnBehaviours :
    WithTrace(parent, active, b)

TraceFulfil ==
  \E i \in 1..Len(spans), v \in ReturnValues : SettlePromise(i, "fulfilled", v)

TraceReject ==
  \E i \in 1..Len(spans), e \in ThrownValues : SettlePromise(i, "rejected", e)

TraceReact == \E i \in 1..Len(spans) : RunReaction(i)

TraceNext == TraceCall \/ TraceFulfil \/ TraceReject \/ TraceReact

SpecTrace == TraceInit /\ [][TraceNext]_vars

\* The configurations given to instrumentWorkflow.
WorkflowConfigs == [runtime : {""}, metrics : {FALSE}, fault : {"none", "resource"}]

RECURSIVE SeqsUpTo(_, _)
SeqsUpTo(S, n) ==
  IF n = 0 THEN {<<>>}
  ELSE LET shorter == SeqsUpTo(S, n - 1)
       IN  shorter \cup {Append(q, x) : q \in shorter, x \in S}

\* A workflow instance before its first execution, in a Workers isolate.
WfInit ==
  /\ SDKIdle
  /\ runtimeEnv = [cloudflare |-> TRUE, node |-> FALSE]
  /\ globals = {}
  /\ TraceIdle
  /\ HelperIdle
  /\ sdkResult = NoHandle
  /\ tpMemo = [set |-> FALSE, val |-> EmptyString]
  /\ doneSteps = {}
  /\ payload \in Payloads
  /\ userProg \in SeqsUpTo(UserSteps, MaxUserSteps)
  /\ userEnds \in {"return", "throw"}
  /\ run = NoRun
  /\ runCount = 0

WfStart ==
  \E active \in AmbientContexts, cfg \in WorkflowConfigs :
    StartRun(active, cfg)

\* The contexts that can be active when the user's function calls a step:
\* none (no context manager across the await) or some span of its own.
StepCallContexts == {ROOT_CONTEXT, [span |-> SpanB, baggage |-> "none"]}

WfUserCall == \E active \in StepCallContexts : UserCallsStep(active)

WfStepSettles == \E how \in {"fulfilled", "rejected"} : StepSettles(how)

WfHibernate == \E completed \in BOOLEAN : Hibernate(completed)

WfNext ==
  \/ WfStart
  \/ TraceparentResolves
  \/ TraceparentRejects
  \/ WfUserCall
  \/ WfStepSettles
  \/ UserFinishes
  \/ WfHibernate

SpecWorkflow == WfInit /\ [][WfNext]_vars

\* The traced step of the first execution, before any property is read.
StepInit ==
  /\ SDKIdle
  /\ runtimeEnv = [cloudflare |-> TRUE, node |-> FALSE]
  /\ globals = {}
  /\ TraceIdle
  /\ HelperIdle
  /\ WfIdle

StepRead == \E prop \in StepProps : ReadProperty(prop)

StepNext == StepRead \/ NewTracedStep

SpecStep == StepInit /\ [][StepNext]_vars

\* A caller holding a params object, in a process where initSDK has or has
\* not registered the propagator.
ParamInit ==
  /\ SDKIdle
  /\ runtimeEnv = [cloudflare |-> TRUE, node |-> FALSE]
  /\ globals \in {{}, {"propagator"}}
  /\ TraceIdle
  /\ StepIdle
  /\ NormIdle
  /\ EpIdle
  /\ LibIdle
  /\ WfIdle
  /\ wfParams \in ParamObjects
  /\ wfParamsIn = wfParams
  /\ lastInject = NoCall
  /\ lastExtract = NoCall
  /\ hops = 0
  /\ nextObj = 2

ParamInject == \E active \in AmbientContexts : CallInject(active)

ParamNext == ParamInject \/ CallExtract \/ CreateChild

SpecParams == ParamInit /\ [][ParamNext]_vars

\* The strings of at most n pieces.
Strings(n) == SeqsUpTo(UrlPieces, n)

\* A caller holding a non-empty string.
NormInit ==
  /\ SDKIdle
  /\ runtimeEnv = [cloudflare |-> FALSE, node |-> TRUE]
  /\ globals = {}
  /\ TraceIdle
  /\ StepIdle
  /\ ParamIdle
  /\ EpIdle
  /\ LibIdle
  /\ WfIdle
  /\ url \in {Str(x) : x \in Strings(MaxUrlLen) \ {<<>>}}
  /\ normalized = <<>>

NormNext == ApplyNormalize

SpecNormalize == NormInit /\ [][NormNext]_vars

\* What a source of name h can hold: nothing, the empty string, blanks, or
\* a host without a scheme followed by a slash.
SourceValues(h) == {Undef, Str(<<>>), Str(<<" ", " ">>), Str(<<h, "/">>)}

\* A base source can also hold a URL with an empty path segment.
BaseValues(h) ==
  SourceValues(h) \cup {Str(<<"http:", "/", "/", h, "/", "/", "otlp", "/">>)}

\* The environments whose values are named hs, hb and ho: the variable of
\* the signal, the base variable, and the variables of the other signals
\* set or not.
Envs(signal, hs, hb, ho) ==
  {[present |-> TRUE,
    map |-> [k \in EnvKeys |->
               IF k = SignalEnvKey(signal) THEN v
               ELSE IF k = BaseEnvKey THEN b ELSE d]] :
     v \in SourceValues(hs), b \in BaseValues(hb), d \in {Undef, Str(<<ho>>)}}

FieldMaps(signal) ==
  {[f \in ConfigFields |->
      IF f = configKey(signal) THEN v
      ELSE IF f = "exporterEndpoint" THEN b ELSE d] :
     v \in SourceValues("config-signal.example.com"),
     b \in BaseValues("config-base.example.com"),
     d \in {Undef, Str(<<"config-other.example.com">>)}}

ProcessEnvs(signal) ==
  {NoEnv} \cup Envs(signal, "process-signal.example.com",
                    "process-base.example.com", "process-other.example.com")

ExplicitEnvs(signal) ==
  {NoEnv} \cup Envs(signal, "cf-signal.example.com", "cf-base.example.com",
                    "cf-other.example.com")

\* A call about to be made, in a process with or without an environment.
EpInit ==
  /\ SDKIdle
  /\ runtimeEnv = [cloudflare |-> FALSE, node |-> TRUE]
  /\ globals = {}
  /\ TraceIdle
  /\ StepIdle
  /\ ParamIdle
  /\ NormIdle
  /\ LibIdle
  /\ WfIdle
  /\ epSignal \in Signals
  /\ processEnv \in ProcessEnvs(epSignal)
  /\ epConfig \in [env : ExplicitEnvs(epSignal), fields : FieldMaps(epSignal)]
  /\ epResult = NoResult

EpNext == CallResolve

SpecEndpoints == EpInit /\ [][EpNext]_vars

\* config.resourceAttributes: none, a service name and an environment, an
\* empty namespace and a custom attribute.
ConfigAttributes ==
  {{},
   {<<ATTR_SERVICE_NAME, <<"from-attrs-config">>>>,
    <<ATTR_DEPLOYMENT_ENVIRONMENT_NAME, <<"production">>>>},
   {<<ATTR_SERVICE_NAMESPACE, <<>>>>, <<<<"custom.attr">>, <<"configured">>>>}}

\* What the detect() of a runtime detector returns.
DetectorAttributes ==
  {{<<<<"custom.attr">>, <<"detected">>>>, <<ATTR_SERVICE_NAME, <<"detected-svc">>>>},
   {<<<<"custom.attr">>, <<"detected-2">>>>,
    <<ATTR_SERVICE_NAMESPACE, <<"detected-ns">>>>}}

\* OTEL_SERVICE_NAME: unset, blank, a name, a name between spaces.
ServiceNameValues ==
  {Undef, Str(<<" ">>), Str(<<"from-env">>), Str(<<" ", "from-env", " ">>)}

\* OTEL_RESOURCE_ATTRIBUTES: unset; a service name; two attributes; spaces
\* around key and value, an escape, a pair without "=" and a pair without
\* key; an empty value; a value whose escape cannot be decoded.
ResourceAttributeValues ==
  {Undef,
   Str(<<"service.name", "=", "from-attrs">>),
   Str(<<"deployment.environment.name", "=", "staging", ",",
         "service.namespace", "=", "my-ns">>),
   Str(<<" ", "service.namespace", " ", "=", " ", "my", "%20", "ns", " ", ",",
         "novalue", ",", "=", "x">>),
   Str(<<"deployment.environment.name", "=">>),
   Str(<<"service.name", "=", "from-attrs", ",", "custom.attr", "=", "%">>)}

ResourceEnvs ==
  {NoResourceEnv}
  \cup [present : {TRUE},
        map : [OTEL_SERVICE_NAME : ServiceNameValues,
               OTEL_RESOURCE_ATTRIBUTES : ResourceAttributeValues]]

\* A call about to be made.
RsInit ==
  /\ SDKIdle
  /\ runtimeEnv = [cloudflare |-> FALSE, node |-> TRUE]
  /\ globals = {}
  /\ TraceIdle
  /\ StepIdle
  /\ ParamIdle
  /\ NormIdle
  /\ EpIdle
  /\ WfIdle
  /\ RegIdle
  /\ InsIdle
  /\ SuIdle
  /\ ExtIdle
  /\ rsConfig \in [serviceName : {Undef, Str(<<>>), Str(<<"from-config">>)},
                    resourceAttributes : ConfigAttributes,
                    env : ResourceEnvs]
  /\ rsDetectors \in SeqsUpTo(DetectorAttributes, MaxDetectors)
  /\ rsTTY \in BOOLEAN
  /\ rsResult = NoBuild

RsNext == CallBuildResource

SpecResource == RsInit /\ [][RsNext]_vars

\* The names resolve is called with: omitted, the built-in ones, the one of
\* a custom adapter, and one that nothing registers.
RuntimeNames == {"", "cloudflare-worker", "node", "deno", "unknown-runtime"}

RegResolve == \E n \in RuntimeNames : CallResolveAdapter(n)

RegNext == SDKRegister \/ RegResolve

\* The registry after module load, in any runtime.
SpecRegistry == SDKInit /\ [][RegNext]_vars

\* The configurations the wrappers are built with; runtime is not part of
\* them, ensureSDK sets it.
InstrumentConfigs == {cfg \in SDKConfigs : cfg.runtime = ""}

InsEnter ==
  \E i \in Invocations, kind \in EntryPoints, cfg \in InstrumentConfigs :
    Enter(i, kind, cfg)

InsSettle ==
  \E i \in Invocations, handlerThrew \in BOOLEAN, responseThrew \in BOOLEAN :
    Settle(i, handlerThrew, responseThrew)

InsFlush == \E i \in Invocations : FlushSettles(i)

InsNext == InsEnter \/ InsSettle \/ InsFlush

\* One process serving invocations that interleave at their awaits.
SpecInstrument == SDKInit /\ [][InsNext]_vars

InsReset == Reset

\* One entry point that goes through traceHandler and one that calls
\* ensureSDK and flush itself.
ResetEntryPoints == {"fetch", "scheduled"}

InsResetEnter ==
  \E i \in Invocations, kind \in ResetEntryPoints,
     cfg \in InstrumentConfigs :
    Enter(i, kind, cfg)

InsResetNext == InsResetEnter \/ InsSettle \/ InsReset

\* The same process with _resetInstrumentState called between steps, as
\* a test suite does.
SpecInstrumentReset == SDKInit /\ [][InsResetNext]_vars

\* The config fields a setup is called with: a base endpoint absent, empty
\* or set, and the endpoint of each signal absent or set.
SetupFields ==
  {[f \in ConfigFields |->
      IF f = "exporterEndpoint" THEN b
      ELSE IF f = "tracesExporterEndpoint" THEN t
      ELSE IF f = "metricsExporterEndpoint" THEN m ELSE l] :
     b \in {Undef, Str(<<>>), Str(<<"config-base.example.com">>)},
     t \in {Undef, Str(<<"config-traces.example.com">>)},
     m \in {Undef, Str(<<"config-metrics.example.com">>)},
     l \in {Undef, Str(<<"config-logs.example.com">>)}}

\* config.env: absent, or present with the logs variable blank or set.
SetupEnvs ==
  {NoEnv}
  \cup {[present |-> TRUE,
          map |-> [k \in EnvKeys |->
                     IF k = SignalEnvKey("logs") THEN v ELSE Undef]] :
          v \in {Str(<<" ", " ">>), Str(<<"cf-logs.example.com">>)}}

\* process.env: absent, or present with the metrics variable set.
SetupProcessEnvs ==
  {NoEnv,
   [present |-> TRUE,
    map |-> [k \in EnvKeys |->
               IF k = SignalEnvKey("metrics")
               THEN Str(<<"process-metrics.example.com">>) ELSE Undef]]}

\* A built-in adapter about to be set up.
SuInit ==
  /\ SDKIdle
  /\ runtimeEnv = [cloudflare |-> FALSE, node |-> TRUE]
  /\ globals = {}
  /\ TraceIdle
  /\ StepIdle
  /\ ParamIdle
  /\ NormIdle
  /\ EpIdle
  /\ WfIdle
  /\ RsIdle
  /\ RegIdle
  /\ InsIdle
  /\ ExtIdle
  /\ suAdapter \in {"cloudflare", "node"}
  /\ suConfig \in [env : SetupEnvs, fields : SetupFields]
  /\ suProcessEnv \in SetupProcessEnvs
  /\ suResult = NoSetup

SuNext == \E fault \in SetupSteps \cup {NoFault} : CallSetup(fault)

SpecSetup == SuInit /\ [][SuNext]_vars

\* The messages the tests pass: a text, the empty string, null.
LogMessages == {"should not throw", "", "null"}

\* A logger just made, in any of the three runtimes' writers.
LgInit ==
  /\ SDKIdle
  /\ runtimeEnv = [cloudflare |-> FALSE, node |-> TRUE]
  /\ globals = {}
  /\ TraceIdle
  /\ StepIdle
  /\ ParamIdle
  /\ NormIdle
  /\ EpIdle
  /\ WfIdle
  /\ RsIdle
  /\ RegIdle
  /\ InsIdle
  /\ SuIdle
  /\ ThIdle
  /\ IfIdle
  /\ LcIdle
  /\ lgWriter \in Writers
  /\ lgCalls = <<>>

LgNext ==
  \E level \in LogLevels, message \in LogMessages,
     sinkThrows \in BOOLEAN, emitThrows \in BOOLEAN :
    CallLog(level, message, sinkThrows, emitThrows)

SpecLogger == LgInit /\ [][LgNext]_vars

\* What a setup leaves registered: nothing (a custom adapter), the
\* propagator alone, or the propagator and a tracer provider.
Registrations == {{}, {"propagator"}, {"propagator", "tracerProvider"}}

\* The traceparent headers of a request, W3C fields or an unrelated text.
RequestHeaders ==
  TraceparentStrings \cup {<<"00", "t1", "s7", "01">>, <<"00", "", "s2", "01">>}

\* A request about to be handled.
ThInit ==
  /\ SDKIdle
  /\ runtimeEnv = [cloudflare |-> TRUE, node |-> FALSE]
  /\ globals = {}
  /\ TraceIdle
  /\ StepIdle
  /\ ParamIdle
  /\ NormIdle
  /\ EpIdle
  /\ WfIdle
  /\ RsIdle
  /\ RegIdle
  /\ InsIdle
  /\ SuIdle
  /\ LgIdle
  /\ IfIdle
  /\ LcIdle
  /\ thHeader \in RequestHeaders
  /\ thActive \in AmbientContexts
  /\ thRegistered \in Registrations
  /\ thResult = NoTraceHandler

ThNext == \E handlerThrew \in BOOLEAN : CallTraceHandler(handlerThrew)

SpecTraceHandler == ThInit /\ [][ThNext]_vars

\* A wrapped fetch just made, with or without a logger.
IfInit ==
  /\ SDKIdle
  /\ runtimeEnv = [cloudflare |-> FALSE, node |-> TRUE]
  /\ globals = {}
  /\ TraceIdle
  /\ StepIdle
  /\ ParamIdle
  /\ NormIdle
  /\ EpIdle
  /\ WfIdle
  /\ RsIdle
  /\ RegIdle
  /\ InsIdle
  /\ SuIdle
  /\ LgIdle
  /\ ThIdle
  /\ LcIdle
  /\ ifLogger \in BOOLEAN
  /\ ifCalls = <<>>

IfNext == \E o \in FetchOutcomes : CallFetch(o)

SpecFetch == IfInit /\ [][IfNext]_vars

\* An SDKResult as a setup or noopSDKResult() returned it; the no-op
\* result has no provider of its own.
LcInit ==
  /\ SDKIdle
  /\ runtimeEnv = [cloudflare |-> FALSE, node |-> TRUE]
  /\ globals = {}
  /\ TraceIdle
  /\ StepIdle
  /\ ParamIdle
  /\ NormIdle
  /\ EpIdle
  /\ WfIdle
  /\ RsIdle
  /\ RegIdle
  /\ InsIdle
  /\ SuIdle
  /\ LgIdle
  /\ ThIdle
  /\ IfIdle
  /\ lcAdapter \in {"cloudflare", "node", "noop"}
  /\ lcEnabled \in SUBSET Signals
  /\ lcAdapter = "noop" => lcEnabled = {}
  /\ lcCalls = <<>>

LcNext ==
  \E op \in {"shutdown", "forceFlush"}, rejecting \in SUBSET Signals :
    CallLifecycle(op, rejecting)

SpecLifecycle == LcInit /\ [][LcNext]_vars

\* C1: initSDK never throws; whenever resolve or setup raised, the caller
\* still receives the no-op result, and every result carries provider,
\* logger, shutdown and forceFlush.
C1_InitSDKNeverThrows ==
  lastInit.called =>
    /\ ~lastInit.threw
    /\ RequiredKeys \subseteq DOMAIN lastInit.result
    /\ (lastInit.resolveThrew \/ lastInit.setupThrew)
         => lastInit.result = noopSDKResult

C1_Witness ==
  /\ lastInit.called
  /\ lastInit.setupThrew
  /\ lastInit.result = noopSDKResult

\* The positions of the events `ops` in a span's log.
Positions(log, ops) == {k \in 1..Len(log) : log[k].op \in ops}

Deliveries == {"return", "throw", "resolve", "reject"}

Exited(sp) == Positions(sp.log, Deliveries) # {}

\* C2: the span of an invocation of withTrace is never ended twice, and once
\* the invocation has left by any exit path (return, throw, resolution,
\* rejection) it has been ended exactly once.
C2_SpanEndedExactlyOnce ==
  \A i \in 1..Len(spans) :
    /\ Cardinality(Positions(spans[i].log, {"end"})) <= 1
    /\ Exited(spans[i]) => Cardinality(Positions(spans[i].log, {"end"})) = 1

C2_Witness ==
  \E i \in 1..Len(spans) :
    /\ Positions(spans[i].log, {"reject"}) # {}
    /\ Cardinality(Positions(spans[i].log, {"end"})) = 1

\* C3: when fn returned a promise the span is still open when withTrace
\* returns, and the end of the span, the error status and the recorded
\* exception all come after the settlement of that promise; status and
\* exception only after a rejection.
C3_AsyncEndsAfterSettle ==
  \A i \in 1..Len(spans) :
    spans[i].fn.kind = "promise" =>
      /\ spans[i].state = "pending" => Positions(spans[i].log, {"end"}) = {}
      /\ \A k \in Positions(spans[i].log, {"end"}) :
           /\ \E r \in Positions(spans[i].log, {"returnPromise"}) : r < k
           /\ \E t \in Positions(spans[i].log, {"settled"}) : t < k
      /\ \A k \in Positions(spans[i].log, {"setStatus", "recordException"}) :
           \E t \in Positions(spans[i].log, {"settled"}) :
             t < k /\ spans[i].log[t].message = "rejected"

C3_Witness ==
  \E i \in 1..Len(spans) :
    /\ spans[i].fn.kind = "promise"
    /\ spans[i].state = "done"
    /\ spans[i].settled = "rejected"
    /\ Positions(spans[i].log, {"setStatus"}) # {}

\* What fn produced: the kind of exit and the value.
Produced(sp) ==
  IF sp.fn.kind = "promise"
  THEN [op |-> IF sp.settled = "fulfilled" THEN "resolve" ELSE "reject",
        val |-> sp.settledVal]
  ELSE [op |-> sp.fn.kind, val |-> sp.fn.val]

\* C4: what reaches the caller of withTrace is what fn produced: the same
\* kind of exit with the identical value.
C4_OutcomeTransparent ==
  \A i \in 1..Len(spans) :
    /\ Cardinality(Positions(spans[i].log, Deliveries)) <= 1
    /\ spans[i].state = "done" => Exited(spans[i])
    /\ \A k \in Positions(spans[i].log, Deliveries) :
         /\ spans[i].log[k].op = Produced(spans[i]).op
         /\ spans[i].log[k].val = Produced(spans[i]).val

C4_Witness ==
  \E i \in 1..Len(spans) :
    /\ spans[i].fn.kind = "throw"
    /\ spans[i].fn.val = ErrBoom
    /\ \E k \in Positions(spans[i].log, {"throw"}) : spans[i].log[k].val = ErrBoom

\* C5: on a throw or rejection with e, setStatus(ERROR, e.message for an
\* Error, String(e) otherwise) and recordException(e) both precede the end of
\* the span, which precedes the rethrow; a successful exit calls neither.
C5_ErrorRecordedBeforeEnd ==
  \A i \in 1..Len(spans) :
    /\ \A d \in Positions(spans[i].log, {"throw", "reject"}) :
         LET e == Produced(spans[i]).val IN
         /\ \E st \in Positions(spans[i].log, {"setStatus"}),
               rx \in Positions(spans[i].log, {"recordException"}),
               en \in Positions(spans[i].log, {"end"}) :
              /\ st < en /\ rx < en /\ en < d
              /\ spans[i].log[rx].val = e
              /\ \/ e.type = "Error" /\ spans[i].log[st].message = e.message
                 \/ e.type # "Error" /\ spans[i].log[st].message = e.str
         /\ Cardinality(Positions(spans[i].log, {"setStatus"})) = 1
         /\ Cardinality(Positions(spans[i].log, {"recordException"})) = 1
    /\ Positions(spans[i].log, {"return", "resolve"}) # {}
         => Positions(spans[i].log, {"setStatus", "recordException"}) = {}

C5_Witness ==
  \E i \in 1..Len(spans) :
    /\ spans[i].fn = [kind |-> "throw", val |-> StrOops]
    /\ \E st \in Positions(spans[i].log, {"setStatus"}) :
         spans[i].log[st].message = "oops"

\* C6 as stated: a Span parent makes the new span its child, every string
\* parent gives the context extracted from that string on ROOT_CONTEXT, an
\* absent parent gives the active context.
C6_ParentResolution ==
  \A i \in 1..Len(spans) :
    LET sp == spans[i] IN
    /\ sp.parent.kind = "span" => sp.parentCtx.span = sp.parent.span
    /\ sp.parent.kind = "string"
         => sp.parentCtx = extract(globals, ROOT_CONTEXT, sp.parent.tp)
    /\ sp.parent.kind = "absent" => sp.parentCtx = sp.active

\* C6 amended: as stated for a non-empty string; an empty string is treated
\* like an absent parent and inherits the active context.
C6_ParentResolutionNonEmpty ==
  \A i \in 1..Len(spans) :
    LET sp == spans[i] IN
    /\ sp.parent.kind = "span" => sp.parentCtx.span = sp.parent.span
    /\ (sp.parent.kind = "string" /\ sp.parent.tp # EmptyString)
         => sp.parentCtx = extract(globals, ROOT_CONTEXT, sp.parent.tp)
    /\ (sp.parent.kind = "absent"
          \/ (sp.parent.kind = "string" /\ sp.parent.tp = EmptyString))
         => sp.parentCtx = sp.active

C6_Witness ==
  \E i \in 1..Len(spans) :
    /\ spans[i].parent.kind = "string"
    /\ spans[i].parent.tp # EmptyString
    /\ spans[i].active # ROOT_CONTEXT
    /\ spans[i].parentCtx.span.remote
    /\ spans[i].parentCtx.baggage = "none"

TraceparentCall == [method |-> "do", name |-> "__traceparent"]

\* C7: in every execution of run() the first call on the underlying step
\* object is do("__traceparent"), made before the user's run function is
\* entered and so before any call it issues.
C7_TraceparentStepFirst ==
  run.pc # "idle" =>
    /\ Len(run.calls) >= 1
    /\ run.calls[1] = TraceparentCall
    /\ \A k \in 2..Len(run.calls) : run.calls[k] \in UserSteps

C7_Witness ==
  /\ runCount > 1
  /\ Len(run.calls) >= 2
  /\ run.calls[2].method = "sleep"

\* C8: the value offered to the __traceparent step is the payload's
\* traceparent when it is present and non-empty, else the serialization of
\* the active context.
C8_OfferedTraceparent ==
  run.pc # "idle" =>
    run.offered =
      IF payload.present /\ payload.tp # EmptyString
      THEN payload.tp
      ELSE inject(run.reg, run.active)

C8_Witness ==
  /\ payload.present /\ payload.tp # EmptyString
  /\ inject(run.reg, run.active) # EmptyString
  /\ inject(run.reg, run.active) # payload.tp
  /\ run.offered = payload.tp

\* C9 as stated: whenever the __traceparent step returned its memoized
\* value, the parent context of the root span is the one extracted from
\* that value.
C9_PersistedParent ==
  (run.rootStarted /\ run.replayed)
    => run.parentCtx = extract(run.reg, ROOT_CONTEXT, run.persisted)

\* C9 amended: the replayed value is the memoized one, and when it is not
\* empty the parent context of the root span is the one extracted from it;
\* an empty memoized value leaves the active context of the resuming process.
C9_PersistedParentNonEmpty ==
  (run.rootStarted /\ run.replayed) =>
      /\ tpMemo.set /\ run.persisted = tpMemo.val
      /\ run.persisted # EmptyString
           => run.parentCtx = extract(run.reg, ROOT_CONTEXT, run.persisted)
      /\ run.persisted = EmptyString => run.parentCtx = run.active

C9_Witness ==
  /\ run.rootStarted /\ run.replayed
  /\ run.persisted # EmptyString
  /\ ~payload.present
  /\ run.active.span # NoSpan
  /\ run.parentCtx.span.remote
  /\ run.parentCtx.span.traceId # run.active.span.traceId

\* C10: every span made for an intercepted do, sleep or sleepUntil has as
\* parent context the root span's context of its own execution, whatever
\* context was active when the call was made.
C10_StepSpansChildOfRoot ==
  run.pc # "idle" =>
    \A k \in 1..Len(run.stepSpans) :
      LET root == rootSpanOf(runCount, run.parentCtx) IN
      /\ run.stepSpans[k].parentCtx.span = root
      /\ run.stepSpans[k].parentCtx = setSpan(run.parentCtx, root)

C10_Witness ==
  \E k \in 1..Len(run.stepSpans) :
    /\ run.stepSpans[k].activeAtCall.span = SpanB
    /\ run.stepSpans[k].parentCtx.span.spanId = "workflow.run"
    /\ run.stepSpans[k].parentCtx.span.run = runCount

\* The step span of the call the run is waiting on, in this process or at
\* the time the process was evicted.
Pending(sp) == sp.ip = run.ip /\ run.pc \in {"awaitStep", "evicted"}

\* C11: the span of an intercepted step has no end event while the wrapped
\* call is pending (issued, or the process suspended on it); once the call
\* has settled the span has exactly one end event, which is its last event,
\* and after a rejection the events are the error status, the recorded
\* exception and the end, with the run rejecting with the same error.
C11_StepSpanOpenUntilSettled ==
  \A k \in 1..Len(run.stepSpans) :
    LET sp == run.stepSpans[k]
    IN  /\ Pending(sp) => sp.log = <<>>
        /\ ~Pending(sp) =>
              /\ Cardinality(Positions(sp.log, {"end"})) = 1
              /\ sp.log[Len(sp.log)].op = "end"
              /\ \/ sp.log = <<Ev("end", "", Undefined)>>
                 \/ /\ sp.log = <<Ev("setStatus", StepError.message, Undefined),
                                  Ev("recordException", "", StepError),
                                  Ev("end", "", Undefined)>>
                    /\ sp.ip = run.ip
                    /\ run.outcome = [kind |-> "rejected", val |-> StepError]

\* A run resumed after an eviction whose step call rejected, after an
\* earlier step span was closed by a fulfilled call.
C11_Witness ==
  /\ runCount = 2
  /\ run.pc = "rejected"
  /\ Len(run.stepSpans) = 2
  /\ Len(run.stepSpans[1].log) = 1
  /\ Len(run.stepSpans[2].log) = 3

\* C12: a failure of the instrumentation's own work never leaves run(): a
\* run that has rejected did so after the user's run function was invoked,
\* and with an error that came out of that function (the error of one of its
\* steps, or its own).
C12_InfraErrorsNeverPropagate ==
  run.pc = "rejected" =>
    /\ run.rootStarted
    /\ run.outcome.val \in {StepError, RunError}

\* C13: on one traced step, all reads of do yield the identical function
\* object, and likewise for sleep and for sleepUntil; the object is a
\* wrapper, not the method of the original step.
C13_CachedWrapperIdentity ==
  \A i, j \in 1..Len(reads) :
    (reads[i].step = reads[j].step /\ reads[i].prop = reads[j].prop
       /\ reads[i].prop \in Intercepted) =>
      /\ reads[i].got = reads[j].got
      /\ reads[i].got.type = "function"
      /\ reads[i].got # reads[i].direct

\* do is read twice on the second traced step after it was read on the
\* first one.
C13_Witness ==
  /\ Len(reads) = 3
  /\ reads[1].prop = "do" /\ reads[1].step = 1
  /\ reads[2].prop = "do" /\ reads[2].step = 2
  /\ reads[3].prop = "do" /\ reads[3].step = 2

\* C14: a read of any property other than do, sleep and sleepUntil on the
\* traced step yields exactly what the same read yields on the original
\* step object.
C14_OtherPropertiesPassThrough ==
  \A i \in 1..Len(reads) :
    reads[i].prop \notin Intercepted => reads[i].got = reads[i].direct

\* C15 as stated: injectTraceparent returns an object distinct from params
\* that holds every key of params with its value and a non-empty string
\* under __traceparent, and params is left as the caller built it.
C15_InjectNonEmpty ==
  lastInject.called =>
    /\ lastInject.result.id # lastInject.input.id
    /\ lastInject.input.props \subseteq lastInject.result.props
    /\ Value(lastInject.result, "__traceparent").type = "string"
    /\ Value(lastInject.result, "__traceparent").tp # EmptyString
    /\ wfParams = wfParamsIn

\* C15 amended: injectTraceparent returns an object distinct from params
\* that holds every key of params other than __traceparent with its value,
\* and under __traceparent (whatever params held there) a string: the
\* traceparent of the active span when a propagator is registered and a span
\* is active, the empty string otherwise; params is left as the caller
\* built it.
C15_InjectNewObject ==
  lastInject.called =>
    LET in == lastInject.input
        out == lastInject.result
        span == lastInject.active.span
    IN  /\ out.id # in.id
        /\ Keys(out) = Keys(in) \cup {"__traceparent"}
        /\ \A key \in Keys(in) \ {"__traceparent"} : Value(out, key) = Value(in, key)
        /\ Value(out, "__traceparent") =
             PStr(IF "propagator" \in globals /\ span # NoSpan
                  THEN <<"00", span.traceId, span.spanId, "01">>
                  ELSE EmptyString)
        /\ wfParams = wfParamsIn

\* A call on params with other keys, under a registered propagator and an
\* active span: the result carries the span's traceparent.
C15_Witness ==
  /\ lastInject.called
  /\ Keys(lastInject.input) = {"userId", "count"}
  /\ Value(lastInject.result, "__traceparent") = PStr(<<"00", "t1", "s1", "01">>)

\* C16: extractTraceparent returns under params an object with the other
\* keys of its input and their values and without __traceparent, under
\* traceparent the input's __traceparent when that is a string and undefined
\* otherwise, and the input is left as the caller built it.
C16_ExtractStrips ==
  lastExtract.called =>
    LET in == lastExtract.input
        out == lastExtract.result
    IN  /\ Keys(out) = Keys(in) \ {"__traceparent"}
        /\ \A key \in Keys(out) : Value(out, key) = Value(in, key)
        /\ lastExtract.traceparent =
             IF Value(in, "__traceparent").type = "string"
             THEN Value(in, "__traceparent") ELSE PUndefined
        /\ wfParams = wfParamsIn

\* A child workflow extracts from the params its parent injected into.
C16_Witness ==
  /\ hops = 1
  /\ lastExtract.called
  /\ "userId" \in Keys(lastExtract.result)
  /\ lastExtract.traceparent.type = "string"
  /\ lastExtract.traceparent.tp # EmptyString

\* The four sources of a call in the order of their precedence: the
\* environment the call reads (the explicit map when there is one, else the
\* one of the process) and the config fields.
Sources ==
  LET env == IF epConfig.env.present THEN epConfig.env.map ELSE processEnv.map
  IN  <<env[SignalEnvKey(epSignal)], env[BaseEnvKey],
        epConfig.fields[configKey(epSignal)], epConfig.fields["exporterEndpoint"]>>

\* The sources that are set: defined and not the empty string.
SetSources == {i \in 1..4 : Truthy(Sources[i])}

Highest == CHOOSE i \in SetSources : \A j \in SetSources : i <= j

\* The value of source i: its normalised URL, followed by the suffix of the
\* signal for a base source.
SourceValue(i) ==
  LET n == normalizeEndpoint(Sources[i])
  IN  IF i \in {2, 4} /\ n.def THEN Str(n.s \o SIGNAL_SUFFIX(epSignal)) ELSE n

\* C17: the result of resolveSignalEndpoint is the value of the source of
\* highest precedence among those that are set (signal env var, base env var
\* plus suffix, signal config field, base config field plus suffix), and
\* undefined when none is set.
C17_HighestPrecedenceWins ==
  epResult.called =>
    epResult.value = IF SetSources = {} THEN Undef ELSE SourceValue(Highest)

\* All four sources hold a URL and the signal's environment variable wins.
C17_Witness ==
  /\ epResult.called
  /\ ~epConfig.env.present
  /\ SetSources = 1..4
  /\ epResult.value = Str(<<"https:", "/", "/", "process-signal.example.com">>)

\* C18: for a non-empty string x, applying normalizeEndpoint to
\* normalizeEndpoint(x) gives normalizeEndpoint(x) again.
C18_NormalizeIdempotent ==
  Len(normalized) >= 2 => normalized[2] = normalized[1]

\* The places of a string where a slash follows a slash.
DoubleSlashes(s) == {i \in 1..(Len(s) - 1) : s[i] = "/" /\ s[i + 1] = "/"}

\* The result was built from a base source.
FromBase ==
  /\ epResult.called
  /\ SetSources # {}
  /\ Highest \in {2, 4}
  /\ epResult.value.def

\* C19 as stated: a result built from a base value is the normalised base
\* followed by the suffix, and has no double slash but the one after the
\* scheme.
C19_NoDoubleSlash ==
  FromBase =>
    /\ epResult.value.s =
         normalizeEndpoint(Sources[Highest]).s \o SIGNAL_SUFFIX(epSignal)
    /\ DoubleSlashes(epResult.value.s) \subseteq {2}

\* C19 amended: a result built from a base value is the normalised base
\* followed by the suffix; the normalised base does not end in a slash, so
\* the result has a double slash only where the normalised base has one
\* (after the scheme, or inside the base value).
C19_NoDoubleSlashAtJoin ==
  FromBase =>
    LET base == normalizeEndpoint(Sources[Highest]).s
    IN  /\ epResult.value.s = base \o SIGNAL_SUFFIX(epSignal)
        /\ base[Len(base)] # "/"
        /\ DoubleSlashes(epResult.value.s) = DoubleSlashes(base)

\* The base environment variable holds a host followed by a slash and the
\* signal's variable is not set.
C19_Witness ==
  /\ FromBase
  /\ Highest = 2
  /\ Sources[2] = Str(<<"process-base.example.com", "/">>)
  /\ epResult.value.s =
       <<"https:", "/", "/", "process-base.example.com", "/", "v1", "/", epSignal>>

\* C20: with an explicit env map in the config, the result is the one the
\* call gives under every other process environment, absent or present.
C20_ExplicitEnvWins ==
  (epResult.called /\ epConfig.env.present) =>
    \A penv \in ProcessEnvs(epSignal) :
      resolveSignalEndpoint(epSignal, epConfig, penv) = epResult.value

\* The explicit map defines neither variable, the process environment
\* defines both, and the result comes from a config field.
C20_Witness ==
  /\ epResult.called
  /\ epConfig.env.present
  /\ ~epConfig.env.map[SignalEnvKey(epSignal)].def
  /\ ~epConfig.env.map[BaseEnvKey].def
  /\ processEnv.present
  /\ Truthy(normalizeEndpoint(processEnv.map[SignalEnvKey(epSignal)]))
  /\ Truthy(normalizeEndpoint(processEnv.map[BaseEnvKey]))
  /\ epResult.value = Str(<<"https:", "/", "/", "config-signal.example.com">>)

\* buildResource has returned a resource.
Built == rsResult.called /\ ~rsResult.threw

\* The explicit env map defines a non-blank OTEL_SERVICE_NAME.
EnvServiceName ==
  /\ rsConfig.env.present
  /\ rsConfig.env.map.OTEL_SERVICE_NAME.def
  /\ trim(rsConfig.env.map.OTEL_SERVICE_NAME.s) # <<>>

\* C21 as stated: with a non-blank OTEL_SERVICE_NAME in the explicit env
\* map, the service name of the returned resource is that value.
C21_EnvServiceNameWins ==
  (Built /\ EnvServiceName) =>
    Attr(rsResult.resource, ATTR_SERVICE_NAME) = rsConfig.env.map.OTEL_SERVICE_NAME

\* C21 amended: with a non-blank OTEL_SERVICE_NAME in the explicit env map,
\* the service name of the returned resource is that value without its
\* leading and trailing whitespace, whatever config.serviceName, the
\* detectors and OTEL_RESOURCE_ATTRIBUTES give.
C21_EnvServiceNameTrimmedWins ==
  (Built /\ EnvServiceName) =>
    Attr(rsResult.resource, ATTR_SERVICE_NAME) =
      Str(trim(rsConfig.env.map.OTEL_SERVICE_NAME.s))

\* config.serviceName, a detector and OTEL_RESOURCE_ATTRIBUTES all give a
\* service name, and the one of OTEL_SERVICE_NAME is the final one.
C21_Witness ==
  /\ Built /\ EnvServiceName
  /\ rsConfig.serviceName = Str(<<"from-config">>)
  /\ rsConfig.env.map.OTEL_RESOURCE_ATTRIBUTES =
       Str(<<"service.name", "=", "from-attrs">>)
  /\ \E i \in 1..Len(rsDetectors) : ATTR_SERVICE_NAME \in AttrKeys(rsDetectors[i])
  /\ Attr(rsResult.resource, ATTR_SERVICE_NAME) = Str(<<"from-env">>)

\* The four layers of the call in the order of their precedence, lowest
\* first: SDK defaults, config attributes, detector attributes, explicit
\* env-map attributes.
LayerList == layers(rsConfig, rsDetectors).list

Defining(key) == {i \in 1..4 : key \in AttrKeys(LayerList[i])}

\* The value of key in the highest layer that defines it.
LayeredValue(key) ==
  IF Defining(key) = {} THEN Undef
  ELSE Attr(LayerList[CHOOSE i \in Defining(key) : \A j \in Defining(key) : j <= i],
            key)

LayerKeys == UNION {AttrKeys(LayerList[i]) : i \in 1..4}

\* C22 as stated: every key that a layer defines has in the returned
\* resource the value of the highest layer that defines it.
C22_LaterLayerOverrides ==
  Built =>
    \A key \in LayerKeys : Attr(rsResult.resource, key) = LayeredValue(key)

TtyKeys == {ATTR_DEPLOYMENT_ENVIRONMENT_NAME, ATTR_SERVICE_NAMESPACE}

\* C22 amended: every key that a layer defines has in the returned resource
\* the value of the highest layer that defines it, except that on a terminal
\* an empty deployment.environment.name or service.namespace is replaced by
\* "local"; config.serviceName, when given, is the service name of the
\* config layer.
C22_LaterLayerOverridesButFallback ==
  Built =>
    /\ \A key \in LayerKeys :
         Attr(rsResult.resource, key) =
           IF key \in TtyKeys /\ rsTTY /\ LayeredValue(key) = Str(<<>>)
           THEN Str(<<"local">>)
           ELSE LayeredValue(key)
    /\ rsConfig.serviceName.def =>
         Attr(LayerList[2], ATTR_SERVICE_NAME) = rsConfig.serviceName

\* custom.attr is given by the config and by two detectors and the last
\* detector's value is the final one, while the config's service name,
\* which no later layer defines, is kept.
C22_Witness ==
  /\ Built
  /\ Len(rsDetectors) = 2
  /\ Defining(<<"custom.attr">>) = {2, 3}
  /\ Attr(rsResult.resource, <<"custom.attr">>) = Str(<<"detected-2">>)
  /\ Defining(ATTR_SERVICE_NAME) = {1, 2}
  /\ Attr(rsResult.resource, ATTR_SERVICE_NAME) = Str(<<"from-config">>)

\* C23 as stated: on a terminal an unset deployment.environment.name or
\* service.namespace becomes "local" and a set one keeps its value; the
\* warning about each is returned exactly when the returned resource does
\* not have the attribute.
C23_TtyFallback ==
  Built =>
    \A key \in TtyKeys :
      /\ (rsTTY /\ ~LayeredValue(key).def) =>
           Attr(rsResult.resource, key) = Str(<<"local">>)
      /\ LayeredValue(key).def =>
           Attr(rsResult.resource, key) = LayeredValue(key)
      /\ (key \in rsResult.warnings) <=> ~Attr(rsResult.resource, key).def

\* C23 amended: on a terminal a deployment.environment.name or
\* service.namespace that is unset or empty becomes "local" and a non-empty
\* one keeps its value; without a terminal the attributes are as the layers
\* gave them; the warning about each is returned exactly when the returned
\* resource has it neither set to a non-empty value.
C23_TtyFallbackNonEmpty ==
  Built =>
    \A key \in TtyKeys :
      /\ (rsTTY /\ ~Truthy(LayeredValue(key))) =>
           Attr(rsResult.resource, key) = Str(<<"local">>)
      /\ (~rsTTY \/ Truthy(LayeredValue(key))) =>
           Attr(rsResult.resource, key) = LayeredValue(key)
      /\ (key \in rsResult.warnings) <=> ~Truthy(Attr(rsResult.resource, key))

\* On a terminal the environment is given by a layer and kept, the
\* namespace is unset and becomes "local", and neither warning is returned.
C23_Witness ==
  /\ Built /\ rsTTY
  /\ LayeredValue(ATTR_DEPLOYMENT_ENVIRONMENT_NAME) = Str(<<"production">>)
  /\ Attr(rsResult.resource, ATTR_DEPLOYMENT_ENVIRONMENT_NAME) = Str(<<"production">>)
  /\ ~LayeredValue(ATTR_SERVICE_NAMESPACE).def
  /\ Attr(rsResult.resource, ATTR_SERVICE_NAMESPACE) = Str(<<"local">>)
  /\ rsResult.warnings \cap TtyKeys = {}

\* C24: every resource that buildResource returns has the service-name key,
\* and its value is the placeholder name of the SDK defaults when neither
\* the config, nor a detector, nor the explicit env map gives a name.
C24_ServiceNamePresent ==
  Built =>
    /\ ATTR_SERVICE_NAME \in AttrKeys(rsResult.resource)
    /\ Defining(ATTR_SERVICE_NAME) \subseteq {1} =>
         /\ Attr(rsResult.resource, ATTR_SERVICE_NAME) = Str(<<"unknown_service:node">>)
         /\ ATTR_SERVICE_NAME \in rsResult.warnings

\* A call with an empty config, no detector naming the service and no env
\* map: the placeholder is the service name.
C24_Witness ==
  /\ Built
  /\ ~rsConfig.serviceName.def
  /\ rsConfig.resourceAttributes = {}
  /\ ~rsConfig.env.present
  /\ Len(rsDetectors) = 1
  /\ Attr(rsResult.resource, ATTR_SERVICE_NAME) = Str(<<"unknown_service:node">>)

\* The adapters registered when resolve was last called.
Registered == lastResolve.registered

\* detect() of the adapter at place i returned the boolean b.
Returns(i, b) ==
  /\ ~Detect(Registered[i], runtimeEnv).threw
  /\ Detect(Registered[i], runtimeEnv).val = b

\* The places of the registered adapters that carry the name n.
Named(n) == {i \in DOMAIN Registered : Registered[i].name = n}

\* The runtimes a process can be.
RuntimeEnvs == [cloudflare : BOOLEAN, node : BOOLEAN]

\* C25: resolve does not fail for want of a match.  When a name is given
\* that no registered adapter carries, or no name is given and detect() of
\* every registered adapter returns false, resolve returns the no-op
\* adapter; the no-op adapter's detect() is false in every runtime and its
\* setup returns, for every configuration, the no-op result with all the
\* required members.
C25_ResolveFallsBackToNoop ==
  /\ lastResolve.called =>
       /\ (lastResolve.runtimeName # "" /\ Named(lastResolve.runtimeName) = {})
            => ~lastResolve.threw /\ lastResolve.adapter = noopAdapter
       /\ (lastResolve.runtimeName = ""
            /\ \A i \in DOMAIN Registered : Returns(i, FALSE))
            => ~lastResolve.threw /\ lastResolve.adapter = noopAdapter
  /\ \A e \in RuntimeEnvs :
       ~Detect(noopAdapter, e).threw /\ ~Detect(noopAdapter, e).val
  /\ \A cfg \in SDKConfigs :
       /\ ~setup(noopAdapter, cfg).threw
       /\ setup(noopAdapter, cfg).result = noopSDKResult
       /\ RequiredKeys \subseteq DOMAIN setup(noopAdapter, cfg).result

\* A custom adapter is registered, every detect() returned false, and
\* resolve without a name gave the no-op adapter.
C25_Witness ==
  /\ lastResolve.called /\ lastResolve.runtimeName = ""
  /\ Len(Registered) = 3
  /\ \A i \in DOMAIN Registered : Returns(i, FALSE)
  /\ lastResolve.adapter = noopAdapter

\* The places whose detect() returned true.
Accepting == {i \in DOMAIN Registered : Returns(i, TRUE)}

\* The first place of a non-empty set of places.
First(S) == CHOOSE i \in S : \A j \in S : i <= j

\* C26: after any sequence of register calls, a resolve without a name
\* that returns gives the first adapter in registration order whose
\* detect() is true; cloudflare-worker is registered first, node second
\* and every custom adapter after them, so a process in which both
\* built-in probes hold resolves to cloudflare-worker, and a custom adapter
\* is returned only when both built-ins declined.
C26_FirstDetectedInOrder ==
  (lastResolve.called /\ lastResolve.runtimeName = "") =>
    /\ Len(Registered) >= 2
    /\ Registered[1] = cloudflareWorkerAdapter
    /\ Registered[2] = nodeAdapter
    /\ \A i \in DOMAIN Registered : i > 2 => Registered[i] \in CustomAdapters
    /\ (~lastResolve.threw /\ Accepting # {})
         => lastResolve.adapter = Registered[First(Accepting)]
    /\ (runtimeEnv.cloudflare /\ runtimeEnv.node)
         => ~lastResolve.threw /\ lastResolve.adapter = cloudflareWorkerAdapter
    /\ (~lastResolve.threw /\ lastResolve.adapter \in CustomAdapters)
         => Returns(1, FALSE) /\ Returns(2, FALSE)
    /\ lastResolve.threw => Returns(1, FALSE) /\ Returns(2, FALSE)

\* A custom adapter was detected after both built-ins declined.
C26_Witness ==
  /\ lastResolve.called /\ lastResolve.runtimeName = ""
  /\ ~lastResolve.threw
  /\ Len(Registered) = 3
  /\ lastResolve.adapter = Registered[3]
  /\ Returns(1, FALSE) /\ Returns(2, FALSE) /\ Returns(3, TRUE)

\* The invocations that have been entered.
Entered == {i \in Invocations : invs[i].pc # "idle"}

\* C27: under any interleaving of invocations of the wrapped fetch,
\* scheduled, queue and workflow entry points in one process, initSDK is
\* called at most once: the first invocation initialises and stores the
\* handle before its first await, and every later invocation observes
\* that same handle.
C27_InitAtMostOnce ==
  /\ insInits <= 1
  /\ \A i \in Entered :
       /\ insInits = 1
       /\ insHandle.set
       /\ invs[i].saw = insHandle
       /\ invs[i].log[1] = "ensureSDK"

\* Two invocations of different entry points are in flight at once, the
\* second entered while the first awaits its handler.
C27_Witness ==
  /\ invs[1].pc = "handler" /\ invs[1].kind = "workflow"
  /\ invs[2].pc = "handler" /\ invs[2].kind = "fetch"
  /\ insInits = 1
  /\ invs[2].saw = invs[1].saw

\* The places of the event ev in a log.
Places(log, ev) == {k \in DOMAIN log : log[k] = ev}

\* The finished invocations of the handlers instrument() wraps.
Finished ==
  {i \in Invocations :
     invs[i].pc = "done" /\ invs[i].kind \in {"fetch", "scheduled", "queue"}}

\* C28: for every invocation of a wrapped fetch, scheduled or queue
\* handler, whether the original handler succeeds or fails, exactly one
\* task is registered with ctx.waitUntil, after the span of the invocation
\* has ended, and the result or error reaches the caller before the flush
\* settles.
C28_OneFlushAfterSpanEnd ==
  \A i \in Finished :
    LET log == invs[i].log
        delivered == Places(log, "return") \cup Places(log, "throw")
    IN  /\ Cardinality(Places(log, "waitUntil")) = 1
        /\ Cardinality(Places(log, "span.end")) = 1
        /\ Cardinality(delivered) = 1
        /\ \A e \in Places(log, "span.end"), w \in Places(log, "waitUntil"),
              d \in delivered :
              /\ e < w
              /\ w < d
              /\ \A f \in Places(log, "flush.settled") : d < f
        /\ invs[i].outcome = "threw" <=> Places(log, "throw") # {}

\* A handler failed, its error reached the caller, and the flush it left
\* behind is still pending.
C28_Witness ==
  \E i \in Finished :
    /\ invs[i].outcome = "threw"
    /\ invs[i].flush = "pending"
    /\ Places(invs[i].log, "waitUntil") # {}

\* The signals whose endpoint resolved to a URL in the last setup.
Resolved ==
  {sg \in Signals : resolveSignalEndpoint(sg, suConfig, suProcessEnv).def}

C30_NoLeakOnFailure ==
  (suResult.called /\ suResult.failed) =>
    /\ suResult.result = noopSDKResult
    /\ suResult.registered = {}

\* C31: every method of a logger made by createLogger returns normally
\* for every input, also when the stderr sink throws and when the OTLP
\* emit throws; a failure of the stderr sink does not keep the OTLP
\* emission of the same call from being attempted.
C31_LoggerNeverThrows ==
  \A k \in DOMAIN lgCalls :
    /\ ~lgCalls[k].threw
    /\ lgCalls[k].attempted
    /\ lgCalls[k].written <=> ~lgCalls[k].sinkThrows
    /\ lgCalls[k].emitted <=> ~lgCalls[k].emitThrows

\* A call whose sink threw and whose record was emitted all the same,
\* followed by a call in which both the sink and the emit threw.
C31_Witness ==
  /\ Len(lgCalls) = 2
  /\ lgCalls[1].sinkThrows /\ lgCalls[1].emitted
  /\ lgCalls[2].sinkThrows /\ lgCalls[2].emitThrows /\ ~lgCalls[2].threw

\* C33: the trace context that traceHandler injects into the response
\* headers identifies the SERVER span that traceHandler created for the
\* request, not the context that was active outside that span.
C33_ResponseCarriesServerSpan ==
  (thResult.called /\ ~thResult.threw /\ "tracerProvider" \in thRegistered) =>
    thResult.injected =
      <<"00", thResult.span.traceId, thResult.span.spanId, "01">>

C32_LifecycleNeverRejects ==
  \A k \in DOMAIN lcCalls :
    LET c == lcCalls[k]
        failed == tryBlock(lcAdapter, lcEnabled, c.rejecting).rejected
    IN  /\ c.settled = "resolved"
        /\ c.op = "forceFlush" => (c.warnings = 1 <=> failed)
        /\ c.op = "shutdown" => c.warnings = 0

\* A cloudflare result whose metrics provider rejects on forceFlush and
\* then on shutdown.
C32_Witness ==
  /\ lcAdapter = "cloudflare" /\ lcEnabled = Signals
  /\ Len(lcCalls) = 2
  /\ lcCalls[1].op = "forceFlush" /\ lcCalls[1].rejecting = {"metrics"}
  /\ lcCalls[1].warnings = 1 /\ lcCalls[1].called = {"traces", "metrics"}
  /\ lcCalls[2].op = "shutdown" /\ lcCalls[2].rejecting = {"metrics"}
  /\ lcCalls[2].settled = "resolved"

\* C35: resolveSignalEndpoint disables a signal only when no source has a
\* usable value: whenever one of the four sources holds a value that is
\* not blank, the result is a defined URL, also when a source of higher
\* precedence holds a string of whitespace.
C35_BlankSourceDoesNotDisable ==
  (epResult.called /\ \E i \in 1..4 : normalizeEndpoint(Sources[i]).def)
    => epResult.value.def

\* C37: buildResource returns a resource and its warnings for every
\* config and never throws: malformed entries of OTEL_RESOURCE_ATTRIBUTES
\* in the explicit env map, also a value whose percent-encoding cannot be
\* decoded, are skipped or kept as data and do not abort the merge.
C37_BuildResourceNeverThrows ==
  rsResult.called => ~rsResult.threw

\* The end events of the root span of the current execution.
RootEnds == Positions(run.rootLog, {"end"})

\* The user's run function has settled in the current execution.
UserSettled == run.rootStarted /\ run.pc \in {"returned", "rejected"}

\* C38: in an instrumented workflow run the root workflow.run span is
\* ended exactly once, after the user's run function has settled, and so
\* after the span of every step the run function awaited has ended; the
\* root span is never ended while an awaited step span is open.
C38_RootEndsAfterSteps ==
  /\ Cardinality(RootEnds) <= 1
  /\ UserSettled => Cardinality(RootEnds) = 1
  /\ RootEnds # {} =>
       /\ UserSettled
       /\ run.rootLog[Len(run.rootLog)].op = "end"
       /\ \A k \in 1..Len(run.stepSpans) :
            /\ ~Pending(run.stepSpans[k])
            /\ Cardinality(Positions(run.stepSpans[k].log, {"end"})) = 1
  /\ (\E k \in 1..Len(run.stepSpans) : Pending(run.stepSpans[k]))
       => RootEnds = {}

\* A run whose two steps were awaited and closed before the user's
\* function returned and the root span ended.
C38_Witness ==
  /\ run.pc = "returned"
  /\ Len(run.stepSpans) = 2
  /\ \A k \in 1..2 : Positions(run.stepSpans[k].log, {"end"}) # {}
  /\ Cardinality(RootEnds) = 1

\* The invocations entered since the handle was last emptied.
SinceReset == {i \in Entered : invs[i].epoch = insResets}

\* What initSDK returns for the configuration the handle was filled with.
FirstReturned ==
  initSDK(adapters, [insFirst.cfg EXCEPT !.runtime = "cloudflare-worker"],
          runtimeEnv).result

\* C36: the lazily cached SDK handle stores whatever the first
\* initialisation returned, a no-op result after a failed setup
\* included; until _resetInstrumentState is called no later invocation
\* calls initSDK again or replaces the handle, even when it passes a
\* different configuration, and flush uses that first handle.
C36_HandleIsFirstResult ==
  /\ insInits <= 1
  /\ insHandle.set <=> insFirst.set
  /\ insHandle.set <=> insInits = 1
  /\ insHandle.set => insHandle.result = FirstReturned
  /\ \A i \in SinceReset :
       /\ insHandle.set
       /\ invs[i].saw = insHandle
       /\ (invs[i].pc = "done" /\ invs[i].kind # "workflow") =>
            /\ invs[i].flushedOn = insHandle
            /\ invs[i].flush # "none"

\* The first setup failed and left the no-op result in the handle; a
\* second invocation with another, sound configuration has finished and
\* flushed on that same handle.
C36_Witness ==
  /\ insFirst.set /\ insFirst.cfg.fault # "none"
  /\ insHandle.result = noopSDKResult
  /\ \E i \in SinceReset :
       /\ invs[i].reconfigured
       /\ invs[i].pc = "done" /\ invs[i].kind = "scheduled"
       /\ invs[i].flushedOn = insHandle

\* The invocations of the handlers traceHandler and instrument() wrap.
Wrapped ==
  {i \in Entered : invs[i].kind \in {"fetch", "scheduled", "queue"}}

\* C39: when several invocations of wrapped handlers are in flight at
\* once and interleave at their awaits, each invocation sets status on,
\* records exceptions on and ends only the span it started itself, and
\* every started span is ended exactly once when its invocation is over;
\* no invocation's error or end is applied to another invocation's span.
C39_OwnSpanOnly ==
  \A i \in Wrapped :
    LET sp == insSpans[invs[i].span]
    IN  /\ invs[i].span = i
        /\ sp.started
        /\ sp.status \subseteq {i}
        /\ sp.exceptions \subseteq {i}
        /\ invs[i].pc = "handler" =>
             sp.ends = <<>> /\ sp.status = {} /\ sp.exceptions = {}
        /\ invs[i].pc = "done" =>
             /\ sp.ends = <<i>>
             /\ invs[i].outcome = "threw" =>
                  sp.status = {i} /\ sp.exceptions = {i}
             /\ invs[i].outcome = "returned" =>
                  sp.status = {} /\ sp.exceptions = {}

\* Two wrapped invocations in flight together: the one entered second
\* has failed and ended its span while the first still awaits its
\* handler with its span untouched.
C39_Witness ==
  /\ {1, 2} \subseteq Wrapped
  /\ invs[1].pc = "handler" /\ invs[1].kind = "queue"
  /\ invs[2].pc = "done" /\ invs[2].outcome = "threw"
  /\ insSpans[2].ends = <<2>> /\ insSpans[2].status = {2}
  /\ insSpans[1].ends = <<>>

====
